---- MODULE Spec2Model ----
(***************************************************************************)
(* A model of gnpy.yang.io: loading an equipment library and a network     *)
(* graph from YANG-formatted data and storing them back.                   *)
(*                                                                         *)
(* Python values are modelled as tagged records, so that values of         *)
(* different Python types can be compared (None with a float, a str with   *)
(* a float, ...).  Floats are decimal numbers m * 10^e, which makes the    *)
(* unit conversions (multiplication and division by powers of ten) exact.  *)
(* A YANG instance node, like a Python dict, is a function from its member *)
(* names to its members; "key in node" is key \in DOMAIN node.             *)
(***************************************************************************)
EXTENDS Integers, Sequences, FiniteSets, TLC

VARIABLES
    pc,         \* position of the caller: which operation ran last
    before,     \* the object the last in-place operation started from
    json_data,  \* the YANG-formatted input being loaded
    equipment,  \* the in-memory equipment object(s) built by the loader
    network,    \* the in-memory network graph
    raw,        \* the YANG-formatted structure emitted by the store side
    reloaded,   \* what loading `raw` again produced
    error       \* the exception that ended the last operation, or NoError

vars == <<pc, before, json_data, equipment, network, raw, reloaded, error>>

-----------------------------------------------------------------------------
(* Python values *)

None == [t |-> "None"]
NoError == "no error"

\* a float: m * 10^e, kept normalised (no trailing zero in m; zero is 0 * 10^0)
RECURSIVE Normalise(_, _)
Normalise(m, e) ==
    IF m = 0 THEN [t |-> "num", m |-> 0, e |-> 0]
    ELSE IF m % 10 = 0 THEN Normalise(m \div 10, e + 1)
    ELSE [t |-> "num", m |-> m, e |-> e]

Num(m, e) == Normalise(m, e)

IsNum(v) == v.t = "num"

\* a Python str holding a type name, a format name, an identifier
Name(n) == [t |-> "name", name |-> n]

\* a Python tuple or list
Tuple(seq) == [t |-> "tuple", elems |-> seq]

\* str(x): the text of x; a decimal64 leaf of a document is such a text
PyStr(x) == [t |-> "str", s |-> x]

\* float(x) of a decimal leaf value, of the text of a float, or of a float;
\* anything else (None, the text 'None') raises
CanFloat(v) == IsNum(v) \/ (v.t = "str" /\ IsNum(v.s))
Float(v) == IF IsNum(v) THEN v ELSE v.s

\* x * 10^k and x / 10^k
Scale(x, k) == IF x.m = 0 THEN x ELSE Num(x.m, x.e + k)
Mul(x, k) == Scale(x, k)
Div(x, k) == Scale(x, 0 - k)

RECURSIVE Pow10(_)
Pow10(n) == IF n <= 0 THEN 1 ELSE 10 * Pow10(n - 1)

\* x < n for a float x and an integer n
LessThan(x, n) ==
    IF x.e >= 0 THEN x.m * Pow10(x.e) < n ELSE x.m < n * Pow10(0 - x.e)

\* "key in node" and node[key] of a dict or of a YANG instance node
Has(node, key) == key \in DOMAIN node
EmptyNode == <<>>

-----------------------------------------------------------------------------
(* gnpy.yang.conversion: the scale factors, as powers of ten *)

THZ == 12
GIGA == 9
FIBER_DISPERSION == -6
FIBER_DISPERSION_SLOPE == 3
FIBER_GAMMA == -3
FIBER_PMD_COEF == -15

-----------------------------------------------------------------------------
(* Objects with a __dict__: an ordered list of (attribute, value).         *)

HasAttr(obj, attr) == \E i \in 1..Len(obj) : obj[i].k = attr

GetAttr(obj, attr) == obj[CHOOSE i \in 1..Len(obj) : obj[i].k = attr].v

\* setattr keeps the position of an attribute the object has already
SetAttr(obj, attr, value) ==
    IF HasAttr(obj, attr)
    THEN [i \in 1..Len(obj) |->
            IF obj[i].k = attr THEN [k |-> attr, v |-> value] ELSE obj[i]]
    ELSE Append(obj, [k |-> attr, v |-> value])

AttrNames(obj) == {obj[i].k : i \in 1..Len(obj)}

Attr(name) == name

-----------------------------------------------------------------------------
(* _extract_per_spectrum *)

\* Frequencies are counted in GHz, and the values interpolated are counted
\* in thousandths, so that both are integers.

GridChannels == 96

\* int(191.3e12 + channel * 50e9)
grid_frequency(channel) == 191300 + channel * 50

Milli(x) == x.m * Pow10(x.e + 3)

unsorted(data) == data

\* data.sort(key=lambda tup: tup[0]); the list is keyed by the frequency
RECURSIVE sort_by_frequency(_)
sort_by_frequency(data) ==
    IF data = <<>> THEN <<>>
    ELSE LET i == CHOOSE i \in 1..Len(data) :
                    \A j \in 1..Len(data) : data[i].frequency <= data[j].frequency
         IN <<data[i]>> \o sort_by_frequency(
                SubSeq(data, 1, i - 1) \o SubSeq(data, i + 1, Len(data)))

\* np.interp at one frequency: the first value below the first key, the last
\* value above the last key, and on the line between two keys
interp(x, data) ==
    IF x <= data[1].frequency THEN data[1].value
    ELSE IF x >= data[Len(data)].frequency THEN data[Len(data)].value
    ELSE LET i == CHOOSE i \in 1..(Len(data) - 1) :
                    data[i].frequency <= x /\ x < data[i + 1].frequency
         IN data[i].value
            + ((data[i + 1].value - data[i].value) * (x - data[i].frequency))
              \div (data[i + 1].frequency - data[i].frequency)

\* a list member that is present has entries
_extract_per_spectrum(key, yang) ==
    IF ~Has(yang, key) THEN Tuple(<<Num(0, 0)>>)
    ELSE LET data == sort_by_frequency(
                [i \in 1..Len(yang[key]) |->
                    [frequency |-> yang[key][i]["frequency"],
                     value |-> Milli(Float(yang[key][i][key]))]])
         IN Tuple([channel \in 1..GridChannels |->
                    Num(interp(grid_frequency(channel - 1), data), -3)])

-----------------------------------------------------------------------------
(* _transform_edfa *)

POLYNOMIAL_NF == "polynomial-NF"
OPENROADM_ILA == "OpenROADM-ILA"
OPENROADM_PREAMP == "OpenROADM-preamp"
OPENROADM_BOOSTER == "OpenROADM-booster"
MIN_MAX_NF == "min-max-NF"
COMPOSITE == "composite"
RAMAN_APPROX == "raman-approximation"
GAIN_RIPPLE == "gain-ripple"
NF_RIPPLE == "nf-ripple"
DYNAMIC_GAIN_TILT == "dynamic-gain-tilt"

NFKeys == {COMPOSITE, POLYNOMIAL_NF, OPENROADM_ILA, OPENROADM_PREAMP,
           OPENROADM_BOOSTER, MIN_MAX_NF, RAMAN_APPROX}

\* gnpy.tools.json_io: the noise-figure model records
Model_dual_stage(preamp, booster) ==
    [t |-> "Model_dual_stage", preamp_variety |-> preamp, booster_variety |-> booster]
Model_openroadm_ila(coef) == [t |-> "Model_openroadm_ila", nf_coef |-> coef]
Model_vg(nf1, nf2, delta_p, nf_min, nf_max) ==
    [t |-> "Model_vg", nf1 |-> nf1, nf2 |-> nf2, delta_p |-> delta_p,
     orig_nf_min |-> nf_min, orig_nf_max |-> nf_max]
Model_fg(nf0) == [t |-> "Model_fg", nf0 |-> nf0]

\* the (nf1, nf2, delta_p) fit: a function of its numeric arguments
estimate_nf_model(gain_min, gain_max, nf_min, nf_max) ==
    [w \in {"nf1", "nf2", "delta_p"} |->
        [t |-> "fit", of |-> w, from |-> <<gain_min, gain_max, nf_min, nf_max>>]]

Coef4(model) ==
    Tuple(<<Float(model["a"]), Float(model["b"]), Float(model["c"]), Float(model["d"])>>)

\* the branch the if/elif chain takes
edfa_branch(edfa) ==
    IF Has(edfa, COMPOSITE) THEN COMPOSITE
    ELSE IF Has(edfa, POLYNOMIAL_NF) THEN POLYNOMIAL_NF
    ELSE IF Has(edfa, OPENROADM_ILA) THEN OPENROADM_ILA
    ELSE IF Has(edfa, OPENROADM_PREAMP) THEN OPENROADM_PREAMP
    ELSE IF Has(edfa, OPENROADM_BOOSTER) THEN OPENROADM_BOOSTER
    ELSE IF Has(edfa, MIN_MAX_NF) THEN MIN_MAX_NF
    ELSE IF Has(edfa, RAMAN_APPROX) THEN RAMAN_APPROX
    ELSE "unrecognized"

edfa_type_def(edfa) ==
    CASE edfa_branch(edfa) = COMPOSITE -> Name("dual_stage")
      [] edfa_branch(edfa) = POLYNOMIAL_NF -> Name("advanced_model")
      [] edfa_branch(edfa) = OPENROADM_ILA -> Name("openroadm")
      [] edfa_branch(edfa) = OPENROADM_PREAMP -> Name("openroadm_preamp")
      [] edfa_branch(edfa) = OPENROADM_BOOSTER -> Name("openroadm_booster")
      [] edfa_branch(edfa) = MIN_MAX_NF -> Name("variable_gain")
      [] edfa_branch(edfa) = RAMAN_APPROX -> Name("advanced_model")
      [] OTHER -> None

edfa_nf_model(edfa) ==
    CASE edfa_branch(edfa) = OPENROADM_ILA ->
            Model_openroadm_ila(Coef4(edfa[OPENROADM_ILA]))
      [] edfa_branch(edfa) = MIN_MAX_NF ->
            LET nf_min == Float(edfa[MIN_MAX_NF]["nf-min"])
                nf_max == Float(edfa[MIN_MAX_NF]["nf-max"])
                fit == estimate_nf_model(Float(edfa["gain-min"]),
                                         Float(edfa["gain-flatmax"]), nf_min, nf_max)
            IN Model_vg(fit["nf1"], fit["nf2"], fit["delta_p"], nf_min, nf_max)
      [] OTHER -> None

edfa_nf_fit_coeff(edfa) ==
    CASE edfa_branch(edfa) = POLYNOMIAL_NF -> Coef4(edfa[POLYNOMIAL_NF])
      [] edfa_branch(edfa) = RAMAN_APPROX ->
            Tuple(<<Num(0, 0), Num(0, 0), Num(0, 0), Float(edfa[RAMAN_APPROX]["nf"])>>)
      [] OTHER -> None

edfa_dual_stage_model(edfa) ==
    IF edfa_branch(edfa) = COMPOSITE
    THEN Model_dual_stage(edfa[COMPOSITE]["preamp"], edfa[COMPOSITE]["booster"])
    ELSE None

\* the Amp object: the keyword arguments of the constructor call, in its order
Amp(edfa) ==
    LET single == edfa_branch(edfa) # COMPOSITE IN
    << [k |-> Attr("type_variety"), v |-> edfa["type"]],
       [k |-> Attr("type_def"), v |-> edfa_type_def(edfa)],
       [k |-> Attr("f_min"),
        v |-> IF single THEN Mul(Float(edfa["frequency-min"]), THZ) ELSE None],
       [k |-> Attr("f_max"),
        v |-> IF single THEN Mul(Float(edfa["frequency-max"]), THZ) ELSE None],
       [k |-> Attr("gain_min"), v |-> Float(edfa["gain-min"])],
       [k |-> Attr("gain_flatmax"),
        v |-> IF single THEN Float(edfa["gain-flatmax"]) ELSE None],
       [k |-> Attr("p_max"),
        v |-> IF single THEN Float(edfa["max-power-out"]) ELSE None],
       [k |-> Attr("nf_fit_coeff"), v |-> edfa_nf_fit_coeff(edfa)],
       [k |-> Attr("nf_ripple"),
        v |-> IF single THEN _extract_per_spectrum(NF_RIPPLE, edfa) ELSE None],
       [k |-> Attr("dgt"),
        v |-> IF single THEN _extract_per_spectrum(DYNAMIC_GAIN_TILT, edfa) ELSE None],
       [k |-> Attr("gain_ripple"),
        v |-> IF single THEN _extract_per_spectrum(GAIN_RIPPLE, edfa) ELSE None],
       [k |-> Attr("out_voa_auto"), v |-> None],
       [k |-> Attr("allowed_for_design"), v |-> [t |-> "bool", b |-> TRUE]],
       [k |-> Attr("raman"), v |-> [t |-> "bool", b |-> FALSE]],
       [k |-> Attr("nf_model"), v |-> edfa_nf_model(edfa)],
       [k |-> Attr("dual_stage_model"), v |-> edfa_dual_stage_model(edfa)] >>

\* the result of a call: the exception raised (NoError when it returned) and
\* the value returned
Returned(value) == [err |-> NoError, val |-> value]
Raised(exception) == [err |-> exception, val |-> None]

_transform_edfa(edfa) ==
    IF edfa_branch(edfa) = "unrecognized"
    THEN Raised("NotImplementedError")
    ELSE Returned(Amp(edfa))

-----------------------------------------------------------------------------
(* _store_equipment_edfa *)

edfa_nf_section(edfa) ==
    LET nf_model == GetAttr(edfa, Attr("nf_model"))
        coeff == GetAttr(edfa, Attr("nf_fit_coeff"))
    IN
    IF nf_model.t = "Model_fg" THEN
        IF LessThan(nf_model.nf0, 3)
        THEN RAMAN_APPROX :> ("nf" :> PyStr(nf_model.nf0))
        ELSE POLYNOMIAL_NF :> [x \in {"a", "b", "c", "d"} |->
                IF x = "d" THEN PyStr(nf_model.nf0) ELSE PyStr(Num(0, 0))]
    ELSE IF nf_model.t = "Model_vg" THEN
        MIN_MAX_NF :> (("nf-min" :> PyStr(nf_model.orig_nf_min))
                       @@ ("nf-max" :> PyStr(nf_model.orig_nf_max)))
    ELSE IF nf_model.t = "Model_openroadm_ila" THEN
        OPENROADM_ILA :> (("a" :> PyStr(nf_model.nf_coef.elems[1]))
                          @@ ("b" :> PyStr(nf_model.nf_coef.elems[2]))
                          @@ ("c" :> PyStr(nf_model.nf_coef.elems[3]))
                          @@ ("d" :> PyStr(nf_model.nf_coef.elems[4])))
    ELSE IF nf_model.t = "Model_openroadm_preamp" THEN
        OPENROADM_PREAMP :> EmptyNode
    ELSE IF nf_model.t = "Model_openroadm_booster" THEN
        OPENROADM_BOOSTER :> EmptyNode
    ELSE IF GetAttr(edfa, Attr("type_def")) = Name("advanced_model") THEN
        POLYNOMIAL_NF :> (("a" :> PyStr(coeff.elems[1]))
                          @@ ("b" :> PyStr(coeff.elems[2]))
                          @@ ("c" :> PyStr(coeff.elems[3]))
                          @@ ("d" :> PyStr(coeff.elems[4])))
    ELSE EmptyNode

_store_equipment_edfa(name, edfa) ==
    LET dual == GetAttr(edfa, Attr("dual_stage_model"))
        head == ("type" :> name) @@ ("gain-min" :> PyStr(GetAttr(edfa, Attr("gain_min"))))
    IN
    IF dual # None THEN
        Returned(head @@ (COMPOSITE :> (("preamp" :> dual.preamp_variety)
                                        @@ ("booster" :> dual.booster_variety))))
    ELSE IF ~IsNum(GetAttr(edfa, Attr("f_min"))) \/ ~IsNum(GetAttr(edfa, Attr("f_max")))
    THEN Raised("TypeError")
    ELSE Returned(
        head
        @@ ("frequency-min" :> PyStr(Div(GetAttr(edfa, Attr("f_min")), THZ)))
        @@ ("frequency-max" :> PyStr(Div(GetAttr(edfa, Attr("f_max")), THZ)))
        @@ ("gain-flatmax" :> PyStr(GetAttr(edfa, Attr("gain_flatmax"))))
        @@ ("max-power-out" :> PyStr(GetAttr(edfa, Attr("p_max"))))
        @@ ("has-output-voa" :> GetAttr(edfa, Attr("out_voa_auto")))
        @@ edfa_nf_section(edfa))

\* the noise-figure sub-structures an amplifier entry carries
nf_sections(entry) == DOMAIN entry \cap NFKeys

-----------------------------------------------------------------------------
(* Scenario "edfa": one amplifier entry is transformed, stored, and the    *)
(* stored entry transformed again.                                         *)

\* a decimal64 leaf
Dec(m, e) == PyStr(Num(m, e))

NFValues == {Num(5, 0), Num(25, -1)}

nf_section_in(key, nf) ==
    CASE key = COMPOSITE -> ("preamp" :> Name("A")) @@ ("booster" :> Name("B"))
      [] key \in {POLYNOMIAL_NF, OPENROADM_ILA} ->
            ("a" :> Dec(1, -2)) @@ ("b" :> Dec(2, -1)) @@ ("c" :> Dec(0, 0)) @@ ("d" :> PyStr(nf))
      [] key = MIN_MAX_NF -> ("nf-min" :> PyStr(nf)) @@ ("nf-max" :> Dec(7, 0))
      [] key = RAMAN_APPROX -> ("nf" :> PyStr(nf))
      [] OTHER -> EmptyNode

edfa_entry(name, present, nf) ==
    [key \in {"type", "gain-min", "gain-flatmax", "frequency-min", "frequency-max",
              "max-power-out"} \cup present |->
        CASE key = "type" -> Name(name)
          [] key = "gain-min" -> Dec(15, 0)
          [] key = "gain-flatmax" -> Dec(25, 0)
          [] key = "frequency-min" -> Dec(1913, -1)
          [] key = "frequency-max" -> Dec(1961, -1)
          [] key = "max-power-out" -> Dec(21, 0)
          [] OTHER -> nf_section_in(key, nf)]

EdfaEntries == {edfa_entry("C", present, nf) : present \in SUBSET NFKeys, nf \in NFValues}

InitEdfa ==
    /\ pc = "edfa: entry"
    /\ before = None
    /\ json_data \in EdfaEntries
    /\ equipment = None
    /\ network = None
    /\ raw = None
    /\ reloaded = None
    /\ error = NoError

TransformEdfa ==
    /\ pc = "edfa: entry"
    /\ LET r == _transform_edfa(json_data) IN
        /\ equipment' = r.val
        /\ error' = r.err
        /\ pc' = IF r.err = NoError THEN "edfa: transformed" ELSE "edfa: failed"
    /\ UNCHANGED <<before, json_data, network, raw, reloaded>>

StoreEdfa ==
    /\ pc = "edfa: transformed"
    /\ LET r == _store_equipment_edfa(GetAttr(equipment, Attr("type_variety")), equipment) IN
        /\ raw' = r.val
        /\ error' = r.err
        /\ pc' = IF r.err = NoError THEN "edfa: stored" ELSE "edfa: store failed"
    /\ UNCHANGED <<before, json_data, equipment, network, reloaded>>

TransformStoredEdfa ==
    /\ pc = "edfa: stored"
    /\ LET r == _transform_edfa(raw) IN
        /\ reloaded' = r.val
        /\ error' = r.err
        /\ pc' = IF r.err = NoError THEN "edfa: reloaded" ELSE "edfa: reload failed"
    /\ UNCHANGED <<before, json_data, equipment, network, raw>>

NextEdfa == TransformEdfa \/ StoreEdfa \/ TransformStoredEdfa

SpecEdfa == InitEdfa /\ [][NextEdfa]_vars

-----------------------------------------------------------------------------
(* _fixup_dual_stage *)

\* a dict keyed by type name, in insertion order: a list of (key, object)
DictKeys(d) == {d[i].key : i \in 1..Len(d)}
DictIndex(d, key) == CHOOSE i \in 1..Len(d) : d[i].key = key

Prefixed(prefix, attr) == prefix \o "_" \o attr

\* "for attr in src.__dict__.keys(): setattr(this_amp, prefix_attr, getattr(src, attr))"
\* when src is another object than this_amp: src does not change meanwhile
\* the loop with two slips: it walks the attributes of this_amp (a snapshot of
\* them) rather than those of src, and reads with getattr(src, attr, None)
copy_attrs_own_keys(this_amp, src, prefix) ==
    this_amp \o [j \in 1..Len(this_amp) |->
                  [k |-> Prefixed(prefix, this_amp[j].k),
                   v |-> IF HasAttr(src, this_amp[j].k)
                         THEN GetAttr(src, this_amp[j].k) ELSE None]]

\* the loop with the slip getattr(this_amp, attr): the value copied is the
\* composite's own
copy_attrs_own_values(this_amp, src, prefix) ==
    this_amp \o [j \in 1..Len(src) |->
                  [k |-> Prefixed(prefix, src[j].k),
                   v |-> IF HasAttr(this_amp, src[j].k)
                         THEN GetAttr(this_amp, src[j].k) ELSE None]]

copy_attrs_from(this_amp, src, prefix) ==
    LET from(i) == CHOOSE j \in 1..Len(src) : Prefixed(prefix, src[j].k) = this_amp[i].k
        updated == [i \in 1..Len(this_amp) |->
                      IF \E j \in 1..Len(src) : Prefixed(prefix, src[j].k) = this_amp[i].k
                      THEN [k |-> this_amp[i].k, v |-> src[from(i)].v]
                      ELSE this_amp[i]]
        added == SelectSeq(src, LAMBDA a : ~HasAttr(this_amp, Prefixed(prefix, a.k)))
    IN updated \o [j \in 1..Len(added) |->
                     [k |-> Prefixed(prefix, added[j].k), v |-> added[j].v]]

\* the same loop when src is this_amp itself: the first setattr that adds an
\* attribute changes the size of the dict being iterated, and the iterator
\* raises RuntimeError when it is asked for the next key
RECURSIVE copy_attrs_self(_, _, _)
copy_attrs_self(this_amp, prefix, i) ==
    IF i > Len(this_amp) THEN Returned(this_amp)
    ELSE LET name == Prefixed(prefix, this_amp[i].k)
             next == SetAttr(this_amp, name, this_amp[i].v)
         IN IF HasAttr(this_amp, name)
            THEN copy_attrs_self(next, prefix, i + 1)
            ELSE [err |-> "RuntimeError", val |-> next]

copy_attrs(amps, this, src, prefix) ==
    IF src = this
    THEN copy_attrs_self(amps[this].obj, prefix, 1)
    ELSE Returned(copy_attrs_from(amps[this].obj, amps[src].obj, prefix))

SetObj(amps, i, obj) == [amps EXCEPT ![i].obj = obj]

\* the body of the loop for the i-th entry of the dict
fixup_one(amps, i) ==
    LET dual == GetAttr(amps[i].obj, Attr("dual_stage_model")) IN
    IF dual = None THEN Returned(amps)
    ELSE IF dual.preamp_variety \notin DictKeys(amps) THEN [err |-> "KeyError", val |-> amps]
    ELSE IF dual.booster_variety \notin DictKeys(amps) THEN [err |-> "KeyError", val |-> amps]
    ELSE LET preamp == DictIndex(amps, dual.preamp_variety)
             booster == DictIndex(amps, dual.booster_variety)
             first == copy_attrs(amps, i, preamp, "preamp")
             amps1 == SetObj(amps, i, first.val)
             second == copy_attrs(amps1, i, booster, "booster")
         IN IF first.err # NoError THEN [err |-> first.err, val |-> amps1]
            ELSE [err |-> second.err, val |-> SetObj(amps1, i, second.val)]

\* the loop over amps.items() from the i-th entry on; an exception leaves the
\* table as it was mutated so far
RECURSIVE fixup_from(_, _)
fixup_from(amps, i) ==
    IF i > Len(amps) THEN Returned(amps)
    ELSE LET r == fixup_one(amps, i) IN
         IF r.err # NoError THEN r ELSE fixup_from(r.val, i + 1)

_fixup_dual_stage(amps) == fixup_from(amps, 1)

-----------------------------------------------------------------------------
(* Scenario "dual": a list of amplifier entries is transformed into the     *)
(* amplifier table, and the table resolved (once by the loader; a second   *)
(* time by a caller that resolves it again).                               *)

MaxAmps == 3

AmpNames == <<"A", "B", "C", "D", "E">>
MissingName == "X"

\* the type names a composite may name: those of a full table, and one more
RefNames == {Name(AmpNames[i]) : i \in 1..MaxAmps} \cup {Name(MissingName)}

plain_entry(i) == edfa_entry(AmpNames[i], {POLYNOMIAL_NF}, Num(4 + i, 0))

composite_entry(i, preamp, booster) ==
    [key \in {"type", "gain-min", COMPOSITE} |->
        CASE key = "type" -> Name(AmpNames[i])
          [] key = "gain-min" -> Dec(15, 0)
          [] OTHER -> ("preamp" :> preamp) @@ ("booster" :> booster)]

\* the booster named is the preamp again, the first type of the table, or the
\* missing one
BoosterRefs(preamp) == {preamp, Name(AmpNames[1]), Name(MissingName)}

CompositesAt(i) ==
    {composite_entry(i, p, b) : p \in RefNames, b \in RefNames} \cap
    UNION {{composite_entry(i, p, b) : b \in BoosterRefs(p)} : p \in RefNames}

\* the lists of n entries of which at most c are composite
RECURSIVE AmpListsOf(_, _)
AmpListsOf(n, c) ==
    IF n = 0 THEN {<<>>}
    ELSE {Append(l, plain_entry(n)) : l \in AmpListsOf(n - 1, c)}
         \cup (IF c = 0 THEN {}
               ELSE {Append(l, x) : l \in AmpListsOf(n - 1, c - 1), x \in CompositesAt(n)})

\* the input lists: at most MaxAmps entries, at most two of them composite
AmpLists == UNION {AmpListsOf(n, 2) : n \in 1..MaxAmps}

\* {x['type'].value: _transform_edfa(x) for x in data[...]}
RECURSIVE amp_table(_, _)
amp_table(list, i) ==
    IF i > Len(list) THEN Returned(<<>>)
    ELSE LET one == _transform_edfa(list[i])
             rest == amp_table(list, i + 1)
         IN IF one.err # NoError THEN one
            ELSE IF rest.err # NoError THEN rest
            ELSE Returned(<<[key |-> list[i]["type"], obj |-> one.val]>> \o rest.val)

InitDual ==
    /\ pc = "dual: entries"
    /\ before = None
    /\ json_data \in AmpLists
    /\ equipment = None
    /\ network = None
    /\ raw = None
    /\ reloaded = None
    /\ error = NoError

TransformAmps ==
    /\ pc = "dual: entries"
    /\ LET r == amp_table(json_data, 1) IN
        /\ equipment' = r.val
        /\ error' = r.err
        /\ pc' = IF r.err = NoError THEN "dual: table" ELSE "dual: failed"
    /\ UNCHANGED <<before, json_data, network, raw, reloaded>>

FixupDualStage ==
    /\ pc \in {"dual: table", "dual: resolved"}
    /\ LET r == _fixup_dual_stage(equipment) IN
        /\ before' = equipment
        /\ equipment' = r.val
        /\ error' = r.err
        /\ pc' = IF pc = "dual: table"
                 THEN (IF r.err = NoError THEN "dual: resolved" ELSE "dual: failed")
                 ELSE (IF r.err = NoError THEN "dual: resolved twice"
                       ELSE "dual: failed twice")
    /\ UNCHANGED <<json_data, network, raw, reloaded>>

NextDual == TransformAmps \/ FixupDualStage

SpecDual == InitDual /\ [][NextDual]_vars

-----------------------------------------------------------------------------
(* _extract_common_fiber, _transform_fiber, _transform_raman_fiber *)

\* x.value of a decimal64 leaf, not passed through float(): a Decimal
Decimal(leaf) == [t |-> "Decimal", d |-> leaf.s]

\* float() of a Decimal, and str() of that float
FloatOfDecimal(v) == IF v.t = "Decimal" THEN v.d ELSE Float(v)

CommonFiberKeys ==
    {"chromatic-dispersion", "chromatic-dispersion-slope", "gamma", "pmd-coefficient"}

_extract_common_fiber(fiber) ==
    [dispersion |-> Mul(Float(fiber["chromatic-dispersion"]), FIBER_DISPERSION),
     dispersion_slope |->
        Mul(Float(fiber["chromatic-dispersion-slope"]), FIBER_DISPERSION_SLOPE),
     gamma |-> Mul(Float(fiber["gamma"]), FIBER_GAMMA),
     pmd_coef |-> Mul(Float(fiber["pmd-coefficient"]), FIBER_PMD_COEF)]

\* fiber[key] of a member the entry lacks raises
_transform_fiber(fiber) ==
    IF ~(CommonFiberKeys \cup {"type"} \subseteq DOMAIN fiber) THEN Raised("KeyError")
    ELSE Returned([class |-> "Fiber", type_variety |-> fiber["type"]]
                  @@ _extract_common_fiber(fiber))

_transform_raman_fiber(fiber) ==
    IF ~(CommonFiberKeys \cup {"type", "raman-efficiency"} \subseteq DOMAIN fiber)
    THEN Raised("KeyError")
    ELSE LET eff == fiber["raman-efficiency"] IN
         Returned([class |-> "RamanFiber",
                   type_variety |-> fiber["type"],
                   raman_efficiency |->
                      [cr |-> [i \in 1..Len(eff) |-> Decimal(eff[i]["cr"])],
                       frequency_offset |->
                            [i \in 1..Len(eff) |-> Float(eff[i]["delta-frequency"])]]]
                  @@ _extract_common_fiber(fiber))

\* the 'Fiber' and 'RamanFiber' tables of _load_equipment, over a fiber list
RECURSIVE fiber_tables(_, _)
fiber_tables(list, i) ==
    IF i > Len(list) THEN Returned([Fiber |-> <<>>, RamanFiber |-> <<>>])
    ELSE LET one == _transform_fiber(list[i])
             ram == IF Has(list[i], "raman-efficiency")
                    THEN _transform_raman_fiber(list[i]) ELSE Returned(None)
             rest == fiber_tables(list, i + 1)
         IN IF one.err # NoError THEN one
            ELSE IF ram.err # NoError THEN ram
            ELSE IF rest.err # NoError THEN rest
            ELSE Returned(
                [Fiber |-> <<[key |-> list[i]["type"], obj |-> one.val]>> \o rest.val.Fiber,
                 RamanFiber |->
                    (IF ram.val = None THEN <<>>
                     ELSE <<[key |-> list[i]["type"], obj |-> ram.val]>>)
                    \o rest.val.RamanFiber])

-----------------------------------------------------------------------------
(* _store_equipment_fiber *)

_store_equipment_fiber(name, fiber) ==
    LET eff == fiber.raman_efficiency IN
    (("type" :> name)
     @@ ("chromatic-dispersion" :> PyStr(Div(fiber.dispersion, FIBER_DISPERSION)))
     @@ ("gamma" :> PyStr(Div(fiber.gamma, FIBER_GAMMA)))
     @@ ("pmd-coefficient" :> PyStr(Div(fiber.pmd_coef, FIBER_PMD_COEF))))
    @@ (IF Has(fiber, "dispersion_slope")
        THEN "dispersion-slope" :>
                PyStr(Div(fiber.dispersion_slope, FIBER_DISPERSION_SLOPE))
        ELSE EmptyNode)
    @@ (IF fiber.class = "RamanFiber"
        THEN "raman-efficiency" :>
                [i \in 1..Len(eff.cr) |->
                    ("delta-frequency" :> PyStr(Div(eff.frequency_offset[i], THZ)))
                    @@ ("cr" :> PyStr(FloatOfDecimal(eff.cr[i])))]
        ELSE EmptyNode)

\* the "tip-photonic-equipment:fiber" list of save_to_json: the Fiber entries
\* that are in no RamanFiber table, then the RamanFiber entries
stored_fibers(equip) ==
    LET plain == SelectSeq(equip.Fiber, LAMBDA e : e.key \notin DictKeys(equip.RamanFiber))
    IN [i \in 1..Len(plain) |-> _store_equipment_fiber(plain[i].key, plain[i].obj)]
       \o [i \in 1..Len(equip.RamanFiber) |->
              _store_equipment_fiber(equip.RamanFiber[i].key, equip.RamanFiber[i].obj)]

-----------------------------------------------------------------------------
(* Scenario "fiber": one fiber type is loaded into the Fiber and RamanFiber *)
(* tables, stored, and the stored entry loaded again.  What validation     *)
(* and default filling do to a stored entry without the dispersion slope   *)
(* member the loader reads is not decided here: either the entry is left   *)
(* as it is, or the member is filled with the schema's default.            *)

MaxRaman == 2

DispersionValues == {Dec(167, -1), Dec(38, -1)}
SlopeValues == {Dec(58, -3), Dec(0, 0)}
GammaValues == {Dec(127, -2)}
PmdValues == {Dec(126, -2)}
CrValues == {Dec(0, 0), Dec(39, -2)}
DeltaFrequencies == {Dec(5, -1), Dec(1, 0), Dec(15, -1)}

RamanEntries == {("cr" :> cr) @@ ("delta-frequency" :> df) :
                    cr \in CrValues, df \in DeltaFrequencies}

RECURSIVE RamanListsOfLen(_)
RamanListsOfLen(n) ==
    IF n = 0 THEN {<<>>}
    ELSE {Append(l, x) : l \in RamanListsOfLen(n - 1), x \in RamanEntries}

\* the list is keyed by delta-frequency
RamanLists ==
    {l \in UNION {RamanListsOfLen(n) : n \in 1..MaxRaman} :
        \A i, j \in 1..Len(l) : i # j => l[i]["delta-frequency"] # l[j]["delta-frequency"]}

fiber_entry(d, ds, g, pmd) ==
    ("type" :> Name("SSMF")) @@ ("chromatic-dispersion" :> d)
    @@ ("chromatic-dispersion-slope" :> ds) @@ ("gamma" :> g) @@ ("pmd-coefficient" :> pmd)

FiberEntries ==
    LET common == {fiber_entry(d, ds, g, pmd) : d \in DispersionValues, ds \in SlopeValues,
                                                g \in GammaValues, pmd \in PmdValues}
    IN common \cup {f @@ ("raman-efficiency" :> l) : f \in common, l \in RamanLists}

\* the default of the slope member, when the schema has one
SlopeDefault == Dec(0, 0)

add_default_slope(entry) ==
    IF Has(entry, "chromatic-dispersion-slope") THEN entry
    ELSE entry @@ ("chromatic-dispersion-slope" :> SlopeDefault)

InitFiber ==
    /\ pc = "fiber: entry"
    /\ before = None
    /\ json_data \in {<<f>> : f \in FiberEntries}
    /\ equipment = None
    /\ network = None
    /\ raw = None
    /\ reloaded = None
    /\ error = NoError

LoadFibers ==
    /\ pc = "fiber: entry"
    /\ LET r == fiber_tables(json_data, 1) IN
        /\ equipment' = r.val
        /\ error' = r.err
        /\ pc' = IF r.err = NoError THEN "fiber: loaded" ELSE "fiber: failed"
    /\ UNCHANGED <<before, json_data, network, raw, reloaded>>

StoreFibers ==
    /\ pc = "fiber: loaded"
    /\ raw' = stored_fibers(equipment)
    /\ pc' = "fiber: stored"
    /\ UNCHANGED <<before, json_data, equipment, network, reloaded, error>>

LoadStoredFibers ==
    /\ pc = "fiber: stored"
    /\ \E filled \in {raw, [i \in 1..Len(raw) |-> add_default_slope(raw[i])]} :
        LET r == fiber_tables(filled, 1) IN
        /\ reloaded' = r.val
        /\ error' = r.err
        /\ pc' = IF r.err = NoError THEN "fiber: reloaded" ELSE "fiber: reload failed"
    /\ UNCHANGED <<before, json_data, equipment, network, raw>>

NextFiber == LoadFibers \/ StoreFibers \/ LoadStoredFibers

SpecFiber == InitFiber /\ [][NextFiber]_vars

-----------------------------------------------------------------------------
(* _transform_roadm, _transform_transceiver *)

_transform_roadm(roadm) ==
    [target_pch_out_db |-> Float(roadm["target-channel-out-power"]),
     add_drop_osnr |-> Float(roadm["add-drop-osnr"]),
     pmd |-> Float(roadm["polarization-mode-dispersion"]),
     restrictions |->
        [preamp_variety_list |->
            IF Has(roadm, "compatible-preamp") THEN roadm["compatible-preamp"] ELSE <<>>,
         booster_variety_list |->
            IF Has(roadm, "compatible-booster") THEN roadm["compatible-booster"] ELSE <<>>]]

_transform_transceiver_mode(mode) ==
    [format |-> mode["name"],
     baud_rate |-> Mul(Float(mode["baud-rate"]), GIGA),
     OSNR |-> Float(mode["required-osnr"]),
     bit_rate |-> Mul(Float(mode["bit-rate"]), GIGA),
     roll_off |-> Float(mode["tx-roll-off"]),
     tx_osnr |-> Float(mode["in-band-tx-osnr"]),
     min_spacing |-> Mul(Float(mode["grid-spacing"]), GIGA),
     cost |-> Float(mode["tip-photonic-simulation:cost"])]

_transform_transceiver(txp) ==
    [type_variety |-> txp["type"],
     frequency |-> [min |-> Mul(Float(txp["frequency-min"]), THZ),
                    max |-> Mul(Float(txp["frequency-max"]), THZ)],
     mode |-> [i \in 1..Len(txp["mode"]) |-> _transform_transceiver_mode(txp["mode"][i])]]

\* int(x): x without its fraction
int(x) ==
    IF x.e >= 0 THEN x
    ELSE IF x.m >= 0 THEN Num(x.m \div Pow10(0 - x.e), 0)
    ELSE Num(0 - ((0 - x.m) \div Pow10(0 - x.e)), 0)

\* the entry of one mode in the list of _store_equipment_transceiver
stored_mode(mode) ==
    ("name" :> mode.format)
    @@ ("bit-rate" :> int(Div(mode.bit_rate, GIGA)))
    @@ ("baud-rate" :> PyStr(Float(Div(mode.baud_rate, GIGA))))
    @@ ("required-osnr" :> PyStr(Float(mode.OSNR)))
    @@ ("in-band-tx-osnr" :> PyStr(Float(mode.tx_osnr)))
    @@ ("grid-spacing" :> PyStr(Float(Div(mode.min_spacing, GIGA))))
    @@ ("tx-roll-off" :> PyStr(Float(mode.roll_off)))
    @@ ("tip-photonic-simulation:cost" :> mode.cost)

store_modes_reversed(name, txp) ==
    ("type" :> name)
    @@ ("frequency-min" :> PyStr(Div(txp.frequency.min, THZ)))
    @@ ("frequency-max" :> PyStr(Div(txp.frequency.max, THZ)))
    @@ ("mode" :> [i \in 1..Len(txp.mode) |-> stored_mode(txp.mode[Len(txp.mode) + 1 - i])])

_store_equipment_transceiver(name, txp) ==
    ("type" :> name)
    @@ ("frequency-min" :> PyStr(Div(txp.frequency.min, THZ)))
    @@ ("frequency-max" :> PyStr(Div(txp.frequency.max, THZ)))
    @@ ("mode" :> [i \in 1..Len(txp.mode) |-> stored_mode(txp.mode[i])])

_optional_float(yangish, key, default) ==
    IF Has(yangish, key) THEN Float(yangish[key]) ELSE default

-----------------------------------------------------------------------------
(* The network graph: a networkx DiGraph of element objects.  An element is *)
(* the graph node itself, so two elements with the same uid are two nodes;  *)
(* a node is named here by its position in the order of insertion.  Edges   *)
(* are kept in the order of their first insertion.                          *)

EmptyGraph == [nodes |-> <<>>, edges |-> <<>>]

add_node(G, el) == [G EXCEPT !.nodes = Append(@, el)]

HasEdge(G, u, v) == \E i \in 1..Len(G.edges) : G.edges[i].src = u /\ G.edges[i].dst = v

\* adding an edge the graph has already updates its weight
add_edge(G, u, v, weight) ==
    IF HasEdge(G, u, v)
    THEN [G EXCEPT !.edges = [i \in 1..Len(@) |->
            IF @[i].src = u /\ @[i].dst = v THEN [@[i] EXCEPT !.weight = weight] ELSE @[i]]]
    ELSE [G EXCEPT !.edges = Append(@, [src |-> u, dst |-> v, weight |-> weight])]

predecessors(G, n) == SelectSeq(G.edges, LAMBDA e : e.dst = n)
successors(G, n) == SelectSeq(G.edges, LAMBDA e : e.src = n)

\* network.edges(): node by node in the order of insertion, the out-edges of
\* each in the order of insertion
RECURSIVE edges_from(_, _)
edges_from(G, n) ==
    IF n > Len(G.nodes) THEN <<>> ELSE successors(G, n) \o edges_from(G, n + 1)

edges(G) == edges_from(G, 1)

-----------------------------------------------------------------------------
(* gnpy.core.elements: the element objects, as far as the loader sets them *)
(* and the store reads them                                                *)

\* _Node sets type_variety only when it is given
with_type_variety(el, type_variety) ==
    IF type_variety = None THEN el ELSE ("type_variety" :> type_variety) @@ el

Edfa(uid, type_variety, params, operational) ==
    with_type_variety([class |-> "Edfa", uid |-> uid,
                       params |-> params, operational |-> operational], type_variety)

\* RoadmParams: per_degree_pch_out_db is empty unless given
Roadm(uid, type_variety, params) ==
    with_type_variety(
        [class |-> "Roadm", uid |-> uid,
         params |-> [target_pch_out_db |-> params.target_pch_out_db,
                     add_drop_osnr |-> params.add_drop_osnr,
                     pmd |-> params.pmd,
                     restrictions |-> params.restrictions,
                     per_degree_pch_out_db |-> EmptyNode]], type_variety)

Transceiver(uid, type_variety) ==
    with_type_variety([class |-> "Transceiver", uid |-> uid], type_variety)

Fused(uid, params) == [class |-> "Fused", uid |-> uid, loss |-> params.loss]

\* FiberParams keeps the length in metres (length_units is 'km')
Fiber(uid, type_variety, params) ==
    with_type_variety([class |-> "Fiber", uid |-> uid,
                       params |-> [params EXCEPT !.length = Mul(@, 3)]], type_variety)

-----------------------------------------------------------------------------
(* _load_network *)

NETWORK_TYPES == "network-types"
PHOTONIC_TOPOLOGY == "tip-photonic-topology:photonic-topology"
NODE == "ietf-network:node"
LINK == "ietf-network-topology:link"
TOPO_AMPLIFIER == "tip-photonic-topology:amplifier"
TOPO_ROADM == "tip-photonic-topology:roadm"
TOPO_TRANSCEIVER == "tip-photonic-topology:transceiver"
TOPO_ATTENUATOR == "tip-photonic-topology:attenuator"
TOPO_FIBER == "tip-photonic-topology:fiber"
TOPO_PATCH == "tip-photonic-topology:patch"
PER_DEGREE_POWER == "roadm-target-egress-per-channel-power"

NodeKinds == {TOPO_AMPLIFIER, TOPO_ROADM, TOPO_TRANSCEIVER, TOPO_ATTENUATOR}

\* the near-zero weight of the edges that carry no length
PatchWeight == Num(1, -2)

\* the locals of _load_network: the graph, the uid -> element table, the
\* loop variable `fiber` (it stays bound after the loop that binds it), and
\* the exception raised, if any
LoadStart == [network |-> EmptyGraph, nodes |-> EmptyNode, fiber |-> None, err |-> NoError]

LoadFail(st, exception) == [st EXCEPT !.err = exception]

\* network.add_node(el); nodes[el.uid] = el
LoadRegister(st, el) ==
    [st EXCEPT !.network = add_node(@, el),
               !.nodes = (el.uid :> (Len(st.network.nodes) + 1)) @@ @]

\* the branch of the if/elif chain over the sub-structures of a node
node_branch(node) ==
    IF Has(node, TOPO_AMPLIFIER) THEN TOPO_AMPLIFIER
    ELSE IF Has(node, TOPO_ROADM) THEN TOPO_ROADM
    ELSE IF Has(node, TOPO_TRANSCEIVER) THEN TOPO_TRANSCEIVER
    ELSE IF Has(node, TOPO_ATTENUATOR) THEN TOPO_ATTENUATOR
    ELSE "unrecognized"

\* the body of "for node in net['ietf-network:node']"
load_node(st, node, equip) ==
    LET uid == node["node-id"] IN
    CASE node_branch(node) = TOPO_AMPLIFIER ->
            LET amp == node[TOPO_AMPLIFIER]
                type_variety == amp["model"]
            IN IF type_variety \notin DictKeys(equip.Edfa) THEN LoadFail(st, "KeyError")
               ELSE LoadRegister(st, Edfa(uid, type_variety,
                        equip.Edfa[DictIndex(equip.Edfa, type_variety)].obj,
                        [gain_target |-> _optional_float(amp, "gain-target", None),
                         tilt_target |-> _optional_float(amp, "tilt-target", Num(0, 0)),
                         out_voa |-> _optional_float(amp, "out-voa-target", None),
                         delta_p |-> _optional_float(amp, "delta-p", None)]))
      [] node_branch(node) = TOPO_ROADM ->
            LET type_variety == node[TOPO_ROADM]["model"]
            IN IF type_variety \notin DictKeys(equip.Roadm) THEN LoadFail(st, "KeyError")
               ELSE LoadRegister(st, Roadm(uid, type_variety,
                        equip.Roadm[DictIndex(equip.Roadm, type_variety)].obj))
      [] node_branch(node) = TOPO_TRANSCEIVER ->
            LoadRegister(st, Transceiver(uid, node[TOPO_TRANSCEIVER]["model"]))
      [] node_branch(node) = TOPO_ATTENUATOR ->
            LET att == node[TOPO_ATTENUATOR] IN
            \* float() of a text that is no number raises
            IF Has(att, "attenuation") /\ ~CanFloat(att["attenuation"])
            THEN LoadFail(st, "ValueError")
            ELSE LoadRegister(st, Fused(uid,
                    [loss |-> _optional_float(att, "attenuation", None)]))
      [] OTHER -> LoadFail(st, "ValueError")

FiberLinkKeys == {"length", "loss-per-km", "attenuation-in", "conn-att-in", "conn-att-out"}

\* the body of the first loop over the links: the Fiber nodes
load_link_node(st, link, equip) ==
    LET source == link["source"]["source-node"]
        target == link["destination"]["dest-node"]
        fiber == link[TOPO_FIBER]
    IN
    IF Has(link, TOPO_FIBER) THEN
        \* fiber[key] of a member the link lacks raises
        IF ~(FiberLinkKeys \cup {"type"} \subseteq DOMAIN fiber) THEN
            [LoadFail(st, "KeyError") EXCEPT !.fiber = fiber]
        ELSE IF fiber["type"] \notin DictKeys(equip.Fiber) THEN
            [LoadFail(st, "KeyError") EXCEPT !.fiber = fiber]
        \* the location of the Fiber is the midpoint of nodes[source] and nodes[target]
        ELSE IF source \notin DOMAIN st.nodes \/ target \notin DOMAIN st.nodes THEN
            [LoadFail(st, "KeyError") EXCEPT !.fiber = fiber]
        ELSE LET specs == equip.Fiber[DictIndex(equip.Fiber, fiber["type"])].obj
                 params == [length |-> Float(fiber["length"]),
                            loss_coef |-> Float(fiber["loss-per-km"]),
                            att_in |-> Float(fiber["attenuation-in"]),
                            con_in |-> Float(fiber["conn-att-in"]),
                            con_out |-> Float(fiber["conn-att-out"]),
                            dispersion |-> specs.dispersion,
                            gamma |-> specs.gamma,
                            pmd_coef |-> specs.pmd_coef]
             IN [LoadRegister(st, Fiber(link["link-id"], fiber["type"], params))
                    EXCEPT !.fiber = fiber]
    ELSE IF Has(link, TOPO_PATCH) THEN st
    ELSE LoadFail(st, "ValueError")

\* the weight of the first edge of a fiber link: float(fiber['length'].value)
\* with `fiber` as the first loop left it
fiber_edge_weight(st, link) == Float(st.fiber["length"])

\* the body of the second loop over the links: the edges
keep_first_power(map, target, per_degree_power) ==
    map @@ (target :> per_degree_power)

\* per_degree_pch_out_db[target] = per_degree_power
record_per_degree_power(map, target, per_degree_power) ==
    (target :> per_degree_power) @@ map

load_link_edges(st, link) ==
    LET source == link["source"]["source-node"]
        target == link["destination"]["dest-node"]
        this_node == link["link-id"]
    IN
    IF Has(link, TOPO_FIBER) THEN
        IF source \notin DOMAIN st.nodes THEN LoadFail(st, "KeyError")
        ELSE LET G1 == add_edge(st.network, st.nodes[source], st.nodes[this_node],
                                fiber_edge_weight(st, link))
             IN IF target \notin DOMAIN st.nodes
                THEN [LoadFail(st, "KeyError") EXCEPT !.network = G1]
                ELSE [st EXCEPT !.network =
                        add_edge(G1, st.nodes[this_node], st.nodes[target], PatchWeight)]
    ELSE IF Has(link, TOPO_PATCH) THEN
        IF source \notin DOMAIN st.nodes \/ target \notin DOMAIN st.nodes
        THEN LoadFail(st, "KeyError")
        ELSE LET s == st.nodes[source]
                 G1 == add_edge(st.network, s, st.nodes[target], PatchWeight)
                 patch == link[TOPO_PATCH]
             IN IF ~Has(patch, PER_DEGREE_POWER) THEN [st EXCEPT !.network = G1]
                \* nodes[source].params.per_degree_pch_out_db: a Roadm has it
                ELSE IF G1.nodes[s].class # "Roadm"
                THEN [LoadFail(st, "AttributeError") EXCEPT !.network = G1]
                ELSE [st EXCEPT !.network =
                        [G1 EXCEPT !.nodes[s].params.per_degree_pch_out_db =
                            record_per_degree_power(@, target,
                                                    Float(patch[PER_DEGREE_POWER]))]]
    ELSE st

\* one of the three loops of a network, over the list `items` from the i-th on
RECURSIVE load_loop(_, _, _, _, _)
load_loop(st, items, i, which, equip) ==
    IF st.err # NoError \/ i > Len(items) THEN st
    ELSE load_loop(CASE which = "node" -> load_node(st, items[i], equip)
                     [] which = "link node" -> load_link_node(st, items[i], equip)
                     [] OTHER -> load_link_edges(st, items[i]),
                   items, i + 1, which, equip)

\* the body of "for net in data['ietf-network:networks']['ietf-network:network']"
load_net(st, net, equip) ==
    IF ~Has(net, NETWORK_TYPES) THEN st
    ELSE IF ~Has(net[NETWORK_TYPES], PHOTONIC_TOPOLOGY) THEN st
    ELSE LET st1 == load_loop(st, net[NODE], 1, "node", equip)
             st2 == load_loop(st1, net[LINK], 1, "link node", equip)
         IN load_loop(st2, net[LINK], 1, "link edges", equip)

RECURSIVE load_nets(_, _, _, _)
load_nets(st, nets, i, equip) ==
    IF st.err # NoError \/ i > Len(nets) THEN st
    ELSE load_nets(load_net(st, nets[i], equip), nets, i + 1, equip)

_load_network(data, equip) ==
    LET st == load_nets(LoadStart, data, 1, equip) IN
    IF st.err # NoError THEN Raised(st.err) ELSE Returned(st.network)

-----------------------------------------------------------------------------
(* _store_topology *)

_json_yang_link(uid, source, destination, extra) ==
    extra @@ (("link-id" :> uid)
              @@ ("source" :> ("source-node" :> source))
              @@ ("destination" :> ("dest-node" :> destination)))

\* f'patch{{{a}, {b}}}'
patch_link_id(a, b) == Name("patch{" \o a.name \o ", " \o b.name \o "}")

\* the locals of _store_topology: the lists `nodes` and `links`, the graph
\* (a Transceiver without type_variety is given one), the exception raised
StoreStart(G) == [nodes |-> <<>>, links |-> <<>>, network |-> G, err |-> NoError]

StoreFail(st, exception) == [st EXCEPT !.err = exception]

\* the body of "for n in network.nodes()"
store_node(st, n, equip) ==
    LET G == st.network
        el == G.nodes[n]
    IN
    CASE el.class = "Transceiver" ->
            IF ~Has(el, "type_variety") /\ Len(equip.Transceiver) = 0
            THEN StoreFail(st, "StopIteration")
            ELSE LET type_variety == IF Has(el, "type_variety") THEN el.type_variety
                                     ELSE equip.Transceiver[1].key
                 IN [st EXCEPT !.network.nodes[n] = with_type_variety(el, type_variety),
                               !.nodes = Append(@, ("node-id" :> el.uid)
                                    @@ (TOPO_TRANSCEIVER :> ("model" :> type_variety)))]
      [] el.class = "Edfa" ->
            IF ~Has(el, "type_variety") THEN StoreFail(st, "AttributeError")
            ELSE LET op == el.operational
                     amp_data ==
                        ("model" :> el.type_variety)
                        @@ (IF op.gain_target # None
                            THEN "gain-target" :> PyStr(op.gain_target) ELSE EmptyNode)
                        @@ (IF op.delta_p # None
                            THEN "delta-p" :> PyStr(op.delta_p) ELSE EmptyNode)
                        @@ (IF op.tilt_target # None
                            THEN "tilt-target" :> PyStr(op.tilt_target) ELSE EmptyNode)
                        @@ (IF op.out_voa # None
                            THEN "out-voa-target" :> PyStr(op.out_voa) ELSE EmptyNode)
                 IN [st EXCEPT !.nodes = Append(@, ("node-id" :> el.uid)
                                                    @@ (TOPO_AMPLIFIER :> amp_data))]
      [] el.class = "Roadm" ->
            IF ~Has(el, "type_variety") THEN StoreFail(st, "NetworkTopologyError")
            ELSE [st EXCEPT !.nodes = Append(@, ("node-id" :> el.uid)
                    @@ (TOPO_ROADM :>
                            (("model" :> el.type_variety)
                             @@ ("target-egress-per-channel-power" :>
                                    PyStr(el.params.target_pch_out_db)))))]
      [] el.class = "Fused" ->
            [st EXCEPT !.nodes = Append(@, ("node-id" :> el.uid)
                    @@ (TOPO_ATTENUATOR :> ("attenuation" :> PyStr(el.loss))))]
      [] el.class = "Fiber" ->
            \* next() of the predecessors, then of the successors: the first
            IF Len(predecessors(G, n)) = 0 \/ Len(successors(G, n)) = 0
            THEN StoreFail(st, "StopIteration")
            ELSE IF ~Has(el, "type_variety") THEN StoreFail(st, "AttributeError")
            ELSE LET ingress_node == G.nodes[predecessors(G, n)[1].src]
                     egress_node == G.nodes[successors(G, n)[1].dst]
                     specific ==
                        TOPO_FIBER :>
                            (("type" :> el.type_variety)
                             @@ ("length" :> PyStr(Div(el.params.length, 3)))
                             @@ ("attenuation-in" :> PyStr(el.params.att_in))
                             @@ ("conn-att-in" :> PyStr(el.params.con_in))
                             @@ ("conn-att-out" :> PyStr(el.params.con_out)))
                 IN [st EXCEPT !.links = Append(@,
                        _json_yang_link(el.uid, ingress_node.uid, egress_node.uid, specific))]
      [] OTHER -> StoreFail(st, "NotImplementedError")

\* the body of "for edge in network.edges()"
store_edge(st, edge) ==
    LET G == st.network
        a == G.nodes[edge.src]
        b == G.nodes[edge.dst]
    IN
    IF a.class = "Fiber" /\ b.class = "Fiber" THEN StoreFail(st, "NetworkTopologyError")
    ELSE IF a.class = "Fiber" \/ b.class = "Fiber" THEN st
    ELSE LET per_degree_powers == a.params.per_degree_pch_out_db
             patch ==
                IF a.class = "Roadm"
                THEN PER_DEGREE_POWER :>
                        PyStr(IF Has(per_degree_powers, b.uid) THEN per_degree_powers[b.uid]
                              ELSE a.params.target_pch_out_db)
                ELSE EmptyNode
         IN [st EXCEPT !.links = Append(@,
                _json_yang_link(patch_link_id(a.uid, b.uid), a.uid, b.uid,
                                TOPO_PATCH :> patch))]

RECURSIVE store_nodes(_, _, _)
store_nodes(st, n, equip) ==
    IF st.err # NoError \/ n > Len(st.network.nodes) THEN st
    ELSE store_nodes(store_node(st, n, equip), n + 1, equip)

RECURSIVE store_edges(_, _, _)
store_edges(st, list, i) ==
    IF st.err # NoError \/ i > Len(list) THEN st
    ELSE store_edges(store_edge(st, list[i]), list, i + 1)

\* the networks it leaves in raw['ietf-network:networks'], and the graph as
\* it leaves it.  The members 'network' and 'node' it writes are the members
\* the loader reads as 'ietf-network:network' and 'ietf-network:node'.
_store_topology(equip, G) ==
    LET st1 == store_nodes(StoreStart(G), 1, equip)
        st2 == store_edges(st1, edges(G), 1)
    IN [err |-> st2.err,
        network |-> st2.network,
        val |-> IF st2.err # NoError THEN None
                ELSE <<("network-id" :> Name("GNPy"))
                       @@ (NETWORK_TYPES :> (PHOTONIC_TOPOLOGY :> EmptyNode))
                       @@ (NODE :> st2.nodes)
                       @@ (LINK :> st2.links)>>]

-----------------------------------------------------------------------------
(* The equipment library of the network scenarios: one type of each kind,  *)
(* loaded from its entries.                                                 *)

KnownType == Name("T")
UnknownType == Name("U")

roadm_entry ==
    ("type" :> KnownType) @@ ("target-channel-out-power" :> Dec(-20, 0))
    @@ ("add-drop-osnr" :> Dec(38, 0)) @@ ("polarization-mode-dispersion" :> Dec(0, 0))

transceiver_entry ==
    ("type" :> KnownType) @@ ("frequency-min" :> Dec(1913, -1))
    @@ ("frequency-max" :> Dec(1961, -1))
    @@ ("mode" :> <<("name" :> Name("mode 1")) @@ ("baud-rate" :> Dec(32, 0))
                    @@ ("required-osnr" :> Dec(11, 0)) @@ ("bit-rate" :> Dec(100, 0))
                    @@ ("tx-roll-off" :> Dec(15, -2)) @@ ("in-band-tx-osnr" :> Dec(40, 0))
                    @@ ("grid-spacing" :> Dec(50, 0))
                    @@ ("tip-photonic-simulation:cost" :> Dec(1, 0))>>)

library_fiber_entry ==
    ("type" :> KnownType) @@ ("chromatic-dispersion" :> Dec(167, -1))
    @@ ("chromatic-dispersion-slope" :> Dec(58, -3)) @@ ("gamma" :> Dec(127, -2))
    @@ ("pmd-coefficient" :> Dec(126, -2))

Library ==
    [Edfa |-> _fixup_dual_stage(
                amp_table(<<edfa_entry(KnownType.name, {POLYNOMIAL_NF}, Num(5, 0))>>, 1).val).val,
     Fiber |-> fiber_tables(<<library_fiber_entry>>, 1).val.Fiber,
     RamanFiber |-> fiber_tables(<<library_fiber_entry>>, 1).val.RamanFiber,
     Roadm |-> <<[key |-> roadm_entry["type"], obj |-> _transform_roadm(roadm_entry)]>>,
     Transceiver |-> <<[key |-> transceiver_entry["type"],
                        obj |-> _transform_transceiver(transceiver_entry)]>>]

-----------------------------------------------------------------------------
(* Scenario "spectrum": the gain ripple of an amplifier entry is           *)
(* extracted.  The entries of the list are keyed by their frequency, here  *)
(* in GHz: below the grid, on it, and above it.                             *)

MaxPoints == 2

PointFrequencies == {190000, 191300, 193025, 197000}
PointValues == {Dec(0, 0), Dec(5, -1), Dec(-1, 0)}

RECURSIVE PointListsOfLen(_)
PointListsOfLen(n) ==
    IF n = 0 THEN {<<>>}
    ELSE UNION {{Append(l, ("frequency" :> f) @@ (GAIN_RIPPLE :> v)) :
                    f \in {g \in PointFrequencies :
                            \A i \in 1..(n - 1) : l[i]["frequency"] # g},
                    v \in PointValues} :
                l \in PointListsOfLen(n - 1)}

SpectrumEntriesOf(max_points) ==
    {EmptyNode} \cup {GAIN_RIPPLE :> l :
                        l \in UNION {PointListsOfLen(n) : n \in 1..max_points}}

InitSpectrum ==
    /\ pc = "spectrum: entry"
    /\ before = None
    /\ json_data \in SpectrumEntriesOf(MaxPoints)
    /\ equipment = None
    /\ network = None
    /\ raw = None
    /\ reloaded = None
    /\ error = NoError

ExtractPerSpectrum ==
    /\ pc = "spectrum: entry"
    /\ raw' = _extract_per_spectrum(GAIN_RIPPLE, json_data)
    /\ pc' = "spectrum: extracted"
    /\ UNCHANGED <<before, json_data, equipment, network, reloaded, error>>

NextSpectrum == ExtractPerSpectrum

SpecSpectrum == InitSpectrum /\ [][NextSpectrum]_vars

-----------------------------------------------------------------------------
(* Scenario "transceiver": one transceiver entry of a document is          *)
(* transformed, the type is stored, and the stored entry is transformed    *)
(* again.  The modes of an entry are keyed by their names.                  *)

MaxModes == 2

ModeNames == {"mode 1", "mode 2", "mode 3"}
BitRates == {Num(100, 0), Num(200, 0)}

mode_of(name, bit_rate) ==
    ("name" :> Name(name)) @@ ("baud-rate" :> Dec(32, 0))
    @@ ("required-osnr" :> Dec(11, 0)) @@ ("bit-rate" :> bit_rate)
    @@ ("tx-roll-off" :> Dec(15, -2)) @@ ("in-band-tx-osnr" :> Dec(40, 0))
    @@ ("grid-spacing" :> Dec(375, -1))
    @@ ("tip-photonic-simulation:cost" :> Dec(1, 0))

ModeEntries == {mode_of(n, b) : n \in ModeNames, b \in BitRates}

RECURSIVE ModeListsOfLen(_)
ModeListsOfLen(n) ==
    IF n = 0 THEN {<<>>}
    ELSE UNION {{Append(l, mode) :
                    mode \in {e \in ModeEntries :
                                \A i \in 1..(n - 1) : l[i]["name"] # e["name"]}} :
                l \in ModeListsOfLen(n - 1)}

transceiver_with(modes) ==
    ("type" :> Name("T")) @@ ("frequency-min" :> Dec(1913, -1))
    @@ ("frequency-max" :> Dec(1961, -1)) @@ ("mode" :> modes)

TransceiverEntriesOf(max_modes) ==
    {transceiver_with(l) : l \in UNION {ModeListsOfLen(n) : n \in 0..max_modes}}

InitTransceiver ==
    /\ pc = "transceiver: entry"
    /\ before = None
    /\ json_data \in TransceiverEntriesOf(MaxModes)
    /\ equipment = None
    /\ network = None
    /\ raw = None
    /\ reloaded = None
    /\ error = NoError

TransformTransceiver ==
    /\ pc = "transceiver: entry"
    /\ equipment' = _transform_transceiver(json_data)
    /\ pc' = "transceiver: type"
    /\ UNCHANGED <<before, json_data, network, raw, reloaded, error>>

StoreTransceiver ==
    /\ pc = "transceiver: type"
    /\ raw' = _store_equipment_transceiver(equipment.type_variety, equipment)
    /\ pc' = "transceiver: stored"
    /\ UNCHANGED <<before, json_data, equipment, network, reloaded, error>>

TransformStoredTransceiver ==
    /\ pc = "transceiver: stored"
    /\ reloaded' = _transform_transceiver(raw)
    /\ pc' = "transceiver: reloaded"
    /\ UNCHANGED <<before, json_data, equipment, network, raw, error>>

NextTransceiver ==
    TransformTransceiver \/ StoreTransceiver \/ TransformStoredTransceiver

SpecTransceiver == InitTransceiver /\ [][NextTransceiver]_vars

-----------------------------------------------------------------------------
(* _store_equipment_roadm, _load_equipment and the raw structure of        *)
(* save_to_json.  Of the Span and SI records only the members read from    *)
(* the simulation section are kept.                                         *)

SIMULATION == "tip-photonic-simulation:simulation"
NETWORKS == "ietf-network:networks"
DEFAULT == Name("default")

_store_equipment_roadm(name, roadm) ==
    ("type" :> name)
    @@ ("add-drop-osnr" :> PyStr(roadm.add_drop_osnr))
    @@ ("polarization-mode-dispersion" :> PyStr(roadm.pmd))
    @@ ("target-channel-out-power" :> PyStr(roadm.target_pch_out_db))
    @@ ("compatible-preamp" :> roadm.restrictions.preamp_variety_list)
    @@ ("compatible-booster" :> roadm.restrictions.booster_variety_list)

zero_power_range(autodesign) == <<Num(0, 0), Num(0, 0), Num(0, 0)>>

\* power_range_db of the SI record: start, stop, step
power_range_of(autodesign) ==
    LET sweep == autodesign["power-mode"]["power-sweep"] IN
    IF Has(autodesign, "power-mode")
    THEN (IF Has(autodesign["power-mode"], "power-sweep")
          THEN <<Float(sweep["start"]), Float(sweep["stop"]), Float(sweep["step-size"])>>
          ELSE <<Num(0, 0), Num(0, 0), Num(0, 0)>>)
    ELSE None

_load_equipment(data, sim_data) ==
    LET amps == amp_table(data["tip-photonic-equipment:amplifier"], 1)
        edfa == IF amps.err # NoError THEN amps ELSE _fixup_dual_stage(amps.val)
        fibers == fiber_tables(data["tip-photonic-equipment:fiber"], 1)
        roadms == data["tip-photonic-equipment:roadm"]
        txps == data["tip-photonic-equipment:transceiver"]
        autodesign == sim_data["autodesign"]
        adjustment == autodesign["power-adjustment-for-span-loss"]
        grid == sim_data["grid"]
    IN
    IF edfa.err # NoError THEN Raised(edfa.err)
    ELSE IF fibers.err # NoError THEN Raised(fibers.err)
    ELSE Returned(
        [Edfa |-> edfa.val,
         Fiber |-> fibers.val.Fiber,
         RamanFiber |-> fibers.val.RamanFiber,
         Span |-> <<[key |-> DEFAULT,
                     obj |-> [power_mode |-> Has(autodesign, "power-mode"),
                              delta_power_range_db |->
                                <<Float(adjustment["maximal-reduction"]),
                                  Float(adjustment["maximal-boost"]),
                                  Float(adjustment["excursion-step-size"])>>]]>>,
         Roadm |-> [i \in 1..Len(roadms) |->
                        [key |-> roadms[i]["type"], obj |-> _transform_roadm(roadms[i])]],
         SI |-> <<[key |-> DEFAULT,
                   obj |-> [f_min |-> Mul(Float(grid["frequency-min"]), THZ),
                            f_max |-> Mul(Float(grid["frequency-max"]), THZ),
                            baud_rate |-> Mul(Float(grid["baud-rate"]), GIGA),
                            spacing |-> Mul(Float(grid["spacing"]), GIGA),
                            power_dbm |-> Float(grid["power"]),
                            power_range_db |-> power_range_of(autodesign),
                            roll_off |-> Float(grid["tx-roll-off"]),
                            sys_margins |-> Float(sim_data["system-margin"]),
                            tx_osnr |-> Float(grid["tx-osnr"])]]>>,
         Transceiver |-> [i \in 1..Len(txps) |->
                            [key |-> txps[i]["type"],
                             obj |-> _transform_transceiver(txps[i])]]])

\* the keys save_to_json looks for before it stores anything
library_complete(equip) ==
    /\ {"Edfa", "Fiber", "Span", "SI", "Transceiver", "Roadm"} \subseteq DOMAIN equip
    /\ DEFAULT \in DictKeys(equip.Span)
    /\ DEFAULT \in DictKeys(equip.SI)

\* raw, as save_to_json has it before the topology is stored
assemble_raw(equip) ==
    LET span == equip.Span[DictIndex(equip.Span, DEFAULT)].obj
        spectrum == equip.SI[DictIndex(equip.SI, DEFAULT)].obj
        amps == [i \in 1..Len(equip.Edfa) |->
                    _store_equipment_edfa(equip.Edfa[i].key, equip.Edfa[i].obj)]
        failed == {i \in 1..Len(amps) : amps[i].err # NoError}
        designed == SelectSeq(equip.Edfa,
                        LAMBDA e : GetAttr(e.obj, Attr("allowed_for_design")).b)
        autodesign ==
            ("allowed-inline-edfa" :> [i \in 1..Len(designed) |-> designed[i].key])
            @@ ("power-adjustment-for-span-loss" :>
                    (("maximal-reduction" :> PyStr(span.delta_power_range_db[1]))
                     @@ ("maximal-boost" :> PyStr(span.delta_power_range_db[2]))
                     @@ ("excursion-step-size" :> PyStr(span.delta_power_range_db[3]))))
            @@ (IF span.power_mode
                THEN "power-mode" :>
                        ("power-sweep" :>
                            (("start" :> PyStr(spectrum.power_range_db[1]))
                             @@ ("stop" :> PyStr(spectrum.power_range_db[2]))
                             @@ ("step-size" :> PyStr(spectrum.power_range_db[3]))))
                ELSE "gain-mode" :> <<None>>)
    IN
    IF failed # {} THEN Raised(amps[CHOOSE i \in failed : \A j \in failed : i <= j].err)
    \* spectrum.power_range_db[0] of None
    ELSE IF span.power_mode /\ spectrum.power_range_db = None THEN Raised("TypeError")
    ELSE Returned(
        ("tip-photonic-equipment:amplifier" :> [i \in 1..Len(amps) |-> amps[i].val])
        @@ ("tip-photonic-equipment:fiber" :> stored_fibers(equip))
        @@ ("tip-photonic-equipment:transceiver" :>
                [i \in 1..Len(equip.Transceiver) |->
                    _store_equipment_transceiver(equip.Transceiver[i].key,
                                                 equip.Transceiver[i].obj)])
        @@ ("tip-photonic-equipment:roadm" :>
                [i \in 1..Len(equip.Roadm) |->
                    _store_equipment_roadm(equip.Roadm[i].key, equip.Roadm[i].obj)])
        @@ (SIMULATION :>
                (("grid" :>
                    (("frequency-min" :> PyStr(Div(spectrum.f_min, THZ)))
                     @@ ("frequency-max" :> PyStr(Div(spectrum.f_max, THZ)))
                     @@ ("spacing" :> PyStr(Div(spectrum.spacing, GIGA)))
                     @@ ("power" :> PyStr(spectrum.power_dbm))
                     @@ ("tx-roll-off" :> PyStr(spectrum.roll_off))
                     @@ ("tx-osnr" :> PyStr(spectrum.tx_osnr))
                     @@ ("baud-rate" :> PyStr(Div(spectrum.baud_rate, GIGA)))))
                 @@ ("autodesign" :> autodesign)
                 @@ ("system-margin" :> PyStr(spectrum.sys_margins)))))

-----------------------------------------------------------------------------
(* Scenario "net": a document is loaded.  The documents are of three       *)
(* families: node lists without links, link lists over two given nodes,    *)
(* and documents in which an identifier is used more than once (by a node  *)
(* and a link, or by two networks).  The ends of every link are nodes of   *)
(* the link's network.                                                      *)
(* No node of them carries a geo-location.                                  *)

MaxNodes == 2
MaxLinks == 2

NodeIds == <<"n1", "n2", "n3", "n4">>
LinkIds == <<"f1", "f2", "f3", "f4">>

amplifier_of(type) == TOPO_AMPLIFIER :> (("model" :> type) @@ ("gain-target" :> Dec(20, 0)))
roadm_of(type) == TOPO_ROADM :> ("model" :> type)
transceiver_of(type) == TOPO_TRANSCEIVER :> ("model" :> type)
attenuator == TOPO_ATTENUATOR :> ("attenuation" :> Dec(3, 0))

\* the sub-structures of a node: one, none, or two
NodeContents ==
    {amplifier_of(t) : t \in {KnownType, UnknownType}}
    \cup {roadm_of(t) : t \in {KnownType, UnknownType}}
    \cup {transceiver_of(t) : t \in {KnownType, UnknownType}}
    \cup {attenuator, TOPO_ATTENUATOR :> EmptyNode, EmptyNode,
          amplifier_of(KnownType) @@ roadm_of(KnownType),
          transceiver_of(KnownType) @@ attenuator}

RECURSIVE NodeListsOfLen(_)
NodeListsOfLen(n) ==
    IF n = 0 THEN {<<>>}
    ELSE {Append(l, ("node-id" :> Name(NodeIds[n])) @@ c) :
            l \in NodeListsOfLen(n - 1), c \in NodeContents}

FiberLengths == {Dec(80, 0), Dec(50, 0)}

fiber_of(type, length) ==
    TOPO_FIBER :> (("type" :> type) @@ ("length" :> length) @@ ("loss-per-km" :> Dec(2, -1))
                   @@ ("attenuation-in" :> Dec(0, 0)) @@ ("conn-att-in" :> Dec(5, -1))
                   @@ ("conn-att-out" :> Dec(5, -1)))

PowerValues == {Dec(-18, 0), Dec(-17, 0)}

LinkContents ==
    {fiber_of(KnownType, l) : l \in FiberLengths}
    \cup {TOPO_PATCH :> (PER_DEGREE_POWER :> p) : p \in PowerValues}
    \cup {fiber_of(UnknownType, Dec(80, 0)),
          TOPO_PATCH :> EmptyNode,
          EmptyNode}

\* the links run between the first two nodes
RECURSIVE LinkListsOfLen(_)
LinkListsOfLen(n) ==
    IF n = 0 THEN {<<>>}
    ELSE {Append(l, _json_yang_link(Name(LinkIds[n]), Name(NodeIds[s]), Name(NodeIds[d]), c)) :
            l \in LinkListsOfLen(n - 1), s \in 1..2, d \in 1..2, c \in LinkContents}

photonic_network(nodes, links) ==
    ("network-id" :> Name("net")) @@ (NETWORK_TYPES :> (PHOTONIC_TOPOLOGY :> EmptyNode))
    @@ (NODE :> nodes) @@ (LINK :> links)

TwoNodes ==
    <<("node-id" :> Name(NodeIds[1])) @@ roadm_of(KnownType),
      ("node-id" :> Name(NodeIds[2])) @@ transceiver_of(KnownType)>>

fiber_link(id, source, target) ==
    _json_yang_link(Name(id), Name(source), Name(target), fiber_of(KnownType, Dec(80, 0)))

second_network(nodes, links) ==
    ("network-id" :> Name("net2")) @@ photonic_network(nodes, links)

\* the documents in which an identifier is used more than once: each list
\* of a network is keyed by its own identifiers only
IdSharingDocuments ==
    {<<photonic_network(TwoNodes, <<fiber_link(NodeIds[1], NodeIds[1], NodeIds[2])>>)>>,
     <<photonic_network(TwoNodes, <<>>), second_network(TwoNodes, <<>>)>>,
     <<photonic_network(TwoNodes, <<fiber_link(LinkIds[1], NodeIds[1], NodeIds[2])>>),
       second_network(TwoNodes, <<fiber_link(LinkIds[1], NodeIds[1], NodeIds[2])>>)>>}

\* the documents of at most max_nodes nodes, or of at most max_links links
NetDocumentsOf(max_nodes, max_links) ==
    IdSharingDocuments \cup
    {<<photonic_network(l, <<>>)>> : l \in UNION {NodeListsOfLen(n) : n \in 0..max_nodes}}
    \cup {<<photonic_network(TwoNodes, l)>> :
            l \in UNION {LinkListsOfLen(n) : n \in 1..max_links}}
    \cup {<<("network-id" :> Name("net")) @@ (NODE :> TwoNodes) @@ (LINK :> <<>>)>>,
          <<("network-id" :> Name("net")) @@ (NETWORK_TYPES :> EmptyNode)
            @@ (NODE :> TwoNodes) @@ (LINK :> <<>>)>>}

InitNet ==
    /\ pc = "net: document"
    /\ before = None
    /\ json_data \in NetDocumentsOf(MaxNodes, MaxLinks)
    /\ equipment = Library
    /\ network = None
    /\ raw = None
    /\ reloaded = None
    /\ error = NoError

LoadNetwork ==
    /\ pc = "net: document"
    /\ LET r == _load_network(json_data, equipment) IN
        /\ network' = r.val
        /\ error' = r.err
        /\ pc' = IF r.err = NoError THEN "net: loaded" ELSE "net: failed"
    /\ UNCHANGED <<before, json_data, equipment, raw, reloaded>>

NextNet == LoadNetwork

SpecNet == InitNet /\ [][NextNet]_vars

-----------------------------------------------------------------------------
(* Scenario "graph": a graph is stored with save_to_json and the stored     *)
(* networks loaded with load_from_yang.  The store leaves out the member    *)
(* 'loss-per-km' of a fiber link, which the loader reads; what validation   *)
(* and default filling do about it is not decided here: either the link is  *)
(* left as it is, or the member is filled with the schema's default.       *)

MaxGraphEdges == 3

GraphUids == <<"n1", "n2", "n3">>

\* the elements a graph is made of, in the order in which a list of nodes
\* may hold them
ElementKinds ==
    <<"Transceiver", "legacy Transceiver", "Edfa", "Roadm", "legacy Roadm",
      "Fused", "Fused without loss", "Fiber">>

element_of(kind, uid) ==
    CASE kind = "Transceiver" -> Transceiver(uid, KnownType)
      [] kind = "legacy Transceiver" -> Transceiver(uid, None)
      [] kind = "Edfa" ->
            Edfa(uid, KnownType, Library.Edfa[1].obj,
                 [gain_target |-> Num(20, 0), tilt_target |-> Num(0, 0),
                  out_voa |-> None, delta_p |-> None])
      [] kind = "Roadm" -> Roadm(uid, KnownType, Library.Roadm[1].obj)
      [] kind = "legacy Roadm" -> Roadm(uid, None, Library.Roadm[1].obj)
      [] kind = "Fused" -> Fused(uid, [loss |-> Num(3, 0)])
      [] kind = "Fused without loss" -> Fused(uid, [loss |-> None])
      [] OTHER ->
            Fiber(uid, KnownType,
                  [length |-> Num(80, 0), loss_coef |-> Num(2, -1), att_in |-> Num(0, 0),
                   con_in |-> Num(5, -1), con_out |-> Num(5, -1),
                   dispersion |-> Library.Fiber[1].obj.dispersion,
                   gamma |-> Library.Fiber[1].obj.gamma,
                   pmd_coef |-> Library.Fiber[1].obj.pmd_coef])

\* the kinds of the nodes, in the order of ElementKinds
KindLists ==
    {k \in UNION {[1..n -> 1..Len(ElementKinds)] : n \in 1..Len(GraphUids)} :
        \A i \in 1..(Len(k) - 1) : k[i] <= k[i + 1]}

\* the edges, added source by source and target by target
RECURSIVE edge_list(_, _, _)
edge_list(pairs, n, i) ==
    IF i > n * n THEN <<>>
    ELSE LET e == <<((i - 1) \div n) + 1, ((i - 1) % n) + 1>> IN
         (IF e \in pairs THEN <<[src |-> e[1], dst |-> e[2], weight |-> PatchWeight]>>
          ELSE <<>>) \o edge_list(pairs, n, i + 1)

\* the graphs of at most max_edges edges
GraphsOf(max_edges) ==
    {[nodes |-> [i \in 1..Len(k) |-> element_of(ElementKinds[k[i]], Name(GraphUids[i]))],
      edges |-> edge_list(pairs, Len(k), 1)] :
        <<k, pairs>> \in UNION {{<<k, pairs>> :
            pairs \in {p \in SUBSET ((1..Len(k)) \X (1..Len(k))) :
                            Cardinality(p) <= max_edges}} : k \in KindLists}}

LossPerKmDefault == Dec(2, -1)

\* add_defaults, where the member has a default
add_default_loss(link) ==
    IF Has(link, TOPO_FIBER) /\ ~Has(link[TOPO_FIBER], "loss-per-km")
    THEN [link EXCEPT ![TOPO_FIBER] = @ @@ ("loss-per-km" :> LossPerKmDefault)]
    ELSE link

add_defaults(nets) ==
    [i \in 1..Len(nets) |->
        [nets[i] EXCEPT ![LINK] = [j \in 1..Len(@) |-> add_default_loss(@[j])]]]

\* the library, and the library of a document without transceiver types
GraphLibraries == {Library, [Library EXCEPT !.Transceiver = <<>>]}

InitGraph ==
    /\ pc = "graph: given"
    /\ before = None
    /\ json_data = None
    /\ equipment \in GraphLibraries
    /\ network \in GraphsOf(MaxGraphEdges)
    /\ raw = None
    /\ reloaded = None
    /\ error = NoError

\* save_to_json: the graph is stored
SaveToJson ==
    /\ pc = "graph: given"
    /\ LET r == _store_topology(equipment, network) IN
        /\ before' = network
        /\ network' = r.network
        /\ raw' = r.val
        /\ error' = r.err
        /\ pc' = IF r.err = NoError THEN "graph: stored" ELSE "graph: store failed"
    /\ UNCHANGED <<json_data, equipment, reloaded>>

\* load_from_yang of what was stored
LoadFromYang ==
    /\ pc = "graph: stored"
    /\ \E data \in {raw, add_defaults(raw)} :
        LET r == _load_network(data, equipment) IN
        /\ json_data' = data
        /\ reloaded' = r.val
        /\ error' = r.err
        /\ pc' = IF r.err = NoError THEN "graph: reloaded" ELSE "graph: reload failed"
    /\ UNCHANGED <<before, equipment, network, raw>>

NextGraph == SaveToJson \/ LoadFromYang

SpecGraph == InitGraph /\ [][NextGraph]_vars

-----------------------------------------------------------------------------
(* Scenario "calls": one call of load_from_yang or of save_to_json, step   *)
(* by step.  `before` is the list of the steps taken so far.  Whether the  *)
(* schema accepts a document is decided outside this code.                  *)

grid_entry ==
    ("frequency-min" :> Dec(1913, -1)) @@ ("frequency-max" :> Dec(1961, -1))
    @@ ("spacing" :> Dec(50, 0)) @@ ("power" :> Dec(0, 0))
    @@ ("tx-roll-off" :> Dec(15, -2)) @@ ("tx-osnr" :> Dec(40, 0))
    @@ ("baud-rate" :> Dec(32, 0))

adjustment_entry ==
    "power-adjustment-for-span-loss" :>
        (("maximal-reduction" :> Dec(-2, 0)) @@ ("maximal-boost" :> Dec(3, 0))
         @@ ("excursion-step-size" :> Dec(5, -1)))

sweep_entry ==
    "power-sweep" :> (("start" :> Dec(-1, 0)) @@ ("stop" :> Dec(1, 0))
                      @@ ("step-size" :> Dec(5, -1)))

simulation_of(mode) ==
    ("grid" :> grid_entry) @@ ("system-margin" :> Dec(2, 0))
    @@ ("autodesign" :> (adjustment_entry @@ mode))

Simulations ==
    {simulation_of("power-mode" :> sweep_entry),
     simulation_of("power-mode" :> EmptyNode),
     simulation_of("gain-mode" :> <<None>>)}

load_document(amps, sim, nets) ==
    ("tip-photonic-equipment:amplifier" :> amps)
    @@ ("tip-photonic-equipment:fiber" :> <<library_fiber_entry>>)
    @@ ("tip-photonic-equipment:roadm" :> <<roadm_entry>>)
    @@ ("tip-photonic-equipment:transceiver" :> <<transceiver_entry>>)
    @@ (NETWORKS :> nets)
    @@ (IF sim = None THEN EmptyNode ELSE SIMULATION :> sim)

LoadDocuments ==
    {load_document(amps, sim, nets) :
        amps \in AmpListsOf(2, 1),
        sim \in Simulations \cup {None},
        nets \in NetDocumentsOf(1, 0)}

without(equip, key) == [k \in DOMAIN equip \ {key} |-> equip[k]]

SaveLibraries ==
    LET full == {_load_equipment(
                    load_document(<<edfa_entry(KnownType.name, {POLYNOMIAL_NF}, Num(5, 0))>>,
                                  sim, <<>>), sim).val : sim \in Simulations}
    IN full
       \cup {without(equip, "Span") : equip \in full}
       \cup {[equip EXCEPT !.SI = <<>>] : equip \in full}

InitCalls ==
    /\ before = <<>>
    /\ raw = None
    /\ reloaded = None
    /\ error = NoError
    /\ \/ /\ pc = "load: called"
          /\ json_data \in LoadDocuments
          /\ equipment = None
          /\ network = None
       \/ /\ pc = "save: called"
          /\ json_data = None
          /\ equipment \in SaveLibraries
          /\ network \in {None} \cup GraphsOf(0)

simulation_ignored(data) == FALSE

simulation_missing(data) == ~Has(data, SIMULATION)

\* load_from_yang: dm.from_raw(json_data); data.validate(...)
ValidateDocument ==
    /\ pc = "load: called"
    /\ before' = Append(before, "validate")
    /\ \E accepted \in BOOLEAN :
        IF accepted
        THEN raw' = json_data /\ pc' = "load: validated" /\ error' = error
        ELSE raw' = raw /\ pc' = "load: failed" /\ error' = "SchemaError"
    /\ UNCHANGED <<json_data, equipment, network, reloaded>>

\* data = data.add_defaults()
AddDefaults ==
    /\ pc = "load: validated"
    /\ before' = Append(before, "add_defaults")
    /\ raw' \in {raw, [raw EXCEPT ![NETWORKS] = add_defaults(@)]}
    /\ pc' = "load: defaults filled"
    /\ UNCHANGED <<json_data, equipment, network, reloaded, error>>

\* if SIMULATION not in data: raise ConfigurationError
CheckSimulation ==
    /\ pc = "load: defaults filled"
    /\ before' = Append(before, "simulation looked for")
    /\ IF simulation_missing(raw)
       THEN pc' = "load: failed" /\ error' = "ConfigurationError"
       ELSE pc' = "load: simulation found" /\ error' = error
    /\ UNCHANGED <<json_data, equipment, network, raw, reloaded>>

\* sim_data = data[SIMULATION]; equipment = _load_equipment(data, sim_data)
LoadEquipment ==
    /\ pc = "load: simulation found"
    /\ before' = Append(before, "_load_equipment")
    /\ LET r == IF Has(raw, SIMULATION) THEN _load_equipment(raw, raw[SIMULATION])
                ELSE Raised("KeyError")
       IN /\ equipment' = r.val
          /\ error' = r.err
          /\ pc' = IF r.err = NoError THEN "load: equipment built" ELSE "load: failed"
    /\ UNCHANGED <<json_data, network, raw, reloaded>>

\* network = _load_network(data, equipment)
LoadTopology ==
    /\ pc = "load: equipment built"
    /\ before' = Append(before, "_load_network")
    /\ LET r == _load_network(raw[NETWORKS], equipment) IN
        /\ network' = r.val
        /\ error' = r.err
        /\ pc' = IF r.err = NoError THEN "load: network built" ELSE "load: failed"
    /\ UNCHANGED <<json_data, equipment, raw, reloaded>>

\* return (equipment, network)
ReturnLoaded ==
    /\ pc = "load: network built"
    /\ before' = Append(before, "return")
    /\ reloaded' = <<equipment, network>>
    /\ pc' = "load: returned"
    /\ UNCHANGED <<json_data, equipment, network, raw, error>>

\* save_to_json: the two loops over the keys of the library
CheckLibrary ==
    /\ pc = "save: called"
    /\ before' = Append(before, "library looked through")
    /\ IF library_complete(equipment)
       THEN pc' = "save: library complete" /\ error' = error
       ELSE pc' = "save: failed" /\ error' = "ConfigurationError"
    /\ UNCHANGED <<json_data, equipment, network, raw, reloaded>>

\* raw = {...}, with its power-mode or gain-mode member
AssembleRaw ==
    /\ pc = "save: library complete"
    /\ before' = Append(before, "equipment and simulation stored")
    /\ LET r == assemble_raw(equipment) IN
        /\ raw' = r.val
        /\ error' = r.err
        /\ pc' = IF r.err = NoError THEN "save: equipment stored" ELSE "save: failed"
    /\ UNCHANGED <<json_data, equipment, network, reloaded>>

\* if network is not None: _store_topology(raw, equipment, network)
StoreTopology ==
    /\ pc = "save: equipment stored"
    /\ before' = Append(before, "_store_topology")
    /\ IF network = None
       THEN /\ pc' = "save: assembled"
            /\ UNCHANGED <<network, raw, error>>
       ELSE LET r == _store_topology(equipment, network) IN
            /\ network' = r.network
            /\ error' = r.err
            /\ raw' = IF r.err = NoError THEN (NETWORKS :> r.val) @@ raw ELSE raw
            /\ pc' = IF r.err = NoError THEN "save: assembled" ELSE "save: failed"
    /\ UNCHANGED <<json_data, equipment, reloaded>>

\* data = dm.from_raw(raw); data.validate()
ValidateRaw ==
    /\ pc = "save: assembled"
    /\ before' = Append(before, "validate")
    /\ \E accepted \in BOOLEAN :
        IF accepted
        THEN pc' = "save: validated" /\ error' = error
        ELSE pc' = "save: failed" /\ error' = "SchemaError"
    /\ UNCHANGED <<json_data, equipment, network, raw, reloaded>>

\* return data.raw_value()
ReturnDocument ==
    /\ pc = "save: validated"
    /\ before' = Append(before, "return")
    /\ reloaded' = raw
    /\ pc' = "save: returned"
    /\ UNCHANGED <<json_data, equipment, network, raw, error>>

NextCalls ==
    \/ ValidateDocument \/ AddDefaults \/ CheckSimulation
    \/ LoadEquipment \/ LoadTopology \/ ReturnLoaded
    \/ CheckLibrary \/ AssembleRaw \/ StoreTopology
    \/ ValidateRaw \/ ReturnDocument

SpecCalls == InitCalls /\ [][NextCalls]_vars

-----------------------------------------------------------------------------
(* Scenario "simulation": the library of a document is loaded, stored, and *)
(* the stored document is loaded again.  The documents differ in their     *)
(* autodesign mode: power mode with a sweep, power mode without, gain mode. *)
(* The stored document names every member of its simulation section, so    *)
(* that filling the defaults adds nothing there; whether it fills the       *)
(* members of a fiber entry that the store leaves out is left open.         *)

SweepStarts == {Dec(-1, 0), Dec(0, 0), Dec(-25, -1)}
SweepStops == {Dec(1, 0), Dec(0, 0), Dec(3, 0)}
SweepSteps == {Dec(5, -1), Dec(1, 0), Dec(3, -1)}

SweepEntries ==
    {"power-sweep" :> (("start" :> a) @@ ("stop" :> b) @@ ("step-size" :> c)) :
        a \in SweepStarts, b \in SweepStops, c \in SweepSteps}

SimulationDocuments ==
    {load_document(<<edfa_entry(KnownType.name, {POLYNOMIAL_NF}, Num(5, 0))>>,
                   simulation_of(mode), <<>>) :
        mode \in {"power-mode" :> sweep : sweep \in SweepEntries}
                 \cup {"power-mode" :> EmptyNode, "gain-mode" :> <<None>>}}

InitSimulation ==
    /\ pc = "simulation: document"
    /\ before = None
    /\ json_data \in SimulationDocuments
    /\ equipment = None
    /\ network = None
    /\ raw = None
    /\ reloaded = None
    /\ error = NoError

\* load_from_yang: _load_equipment(data, sim_data)
LoadLibrary ==
    /\ pc = "simulation: document"
    /\ LET r == _load_equipment(json_data, json_data[SIMULATION]) IN
        /\ equipment' = r.val
        /\ error' = r.err
        /\ pc' = IF r.err = NoError THEN "simulation: loaded" ELSE "simulation: failed"
    /\ UNCHANGED <<before, json_data, network, raw, reloaded>>

\* save_to_json of the loaded library, without a network
StoreLibrary ==
    /\ pc = "simulation: loaded"
    /\ LET r == IF library_complete(equipment) THEN assemble_raw(equipment)
                ELSE Raised("ConfigurationError")
       IN /\ raw' = r.val
          /\ error' = r.err
          /\ pc' = IF r.err = NoError THEN "simulation: stored"
                   ELSE "simulation: store failed"
    /\ UNCHANGED <<before, json_data, equipment, network, reloaded>>

\* load_from_yang of the stored document
LoadStoredLibrary ==
    /\ pc = "simulation: stored"
    /\ \E data \in {raw, [raw EXCEPT !["tip-photonic-equipment:fiber"] =
                                [i \in 1..Len(@) |-> add_default_slope(@[i])]]} :
        LET r == IF simulation_missing(data) THEN Raised("ConfigurationError")
                 ELSE _load_equipment(data, data[SIMULATION])
        IN /\ reloaded' = r.val
           /\ error' = r.err
           /\ pc' = IF r.err = NoError THEN "simulation: reloaded"
                    ELSE "simulation: reload failed"
    /\ UNCHANGED <<before, json_data, equipment, network, raw>>

NextSimulation == LoadLibrary \/ StoreLibrary \/ LoadStoredLibrary

SpecSimulation == InitSimulation /\ [][NextSimulation]_vars

-----------------------------------------------------------------------------
(* The amplifier transformer and its store *)

\* C4: the transformer succeeds only on an entry with exactly one noise-figure
\* sub-structure; with none, or with two or more, it raises the
\* unrecognized-model error and returns no record.
C4_ExactlyOneNFSectionOrError ==
    pc \in {"edfa: transformed", "edfa: failed"} =>
        /\ pc = "edfa: transformed" => Cardinality(nf_sections(json_data)) = 1
        /\ Cardinality(nf_sections(json_data)) # 1 =>
                error = "NotImplementedError" /\ equipment = None

SameNFModel(a, b) ==
    /\ GetAttr(a, Attr("type_def")) = GetAttr(b, Attr("type_def"))
    /\ GetAttr(a, Attr("nf_model")) = GetAttr(b, Attr("nf_model"))
    /\ GetAttr(a, Attr("nf_fit_coeff")) = GetAttr(b, Attr("nf_fit_coeff"))
    /\ GetAttr(a, Attr("dual_stage_model")) = GetAttr(b, Attr("dual_stage_model"))

\* C9: for every record the transformer produced, the store emits exactly one
\* noise-figure sub-structure, and transforming the emitted entry succeeds and
\* yields the same type_def and the same noise-figure model parameters.
C9_StoredEdfaTransformsBack ==
    /\ pc \in {"edfa: stored", "edfa: reloaded", "edfa: reload failed"} =>
            Cardinality(nf_sections(raw)) = 1
    /\ pc # "edfa: store failed"
    /\ pc # "edfa: reload failed"
    /\ pc = "edfa: reloaded" => SameNFModel(reloaded, equipment)

-----------------------------------------------------------------------------
(* The dual-stage resolver *)

BaseAttrNames == AttrNames(Amp(plain_entry(1)))

IsComposite(obj) == GetAttr(obj, Attr("dual_stage_model")) # None

\* the entry of the table stored under the preamp (booster) name of entry i
PreampOf(amps, i) ==
    amps[DictIndex(amps, GetAttr(amps[i].obj, Attr("dual_stage_model")).preamp_variety)].obj
BoosterOf(amps, i) ==
    amps[DictIndex(amps, GetAttr(amps[i].obj, Attr("dual_stage_model")).booster_variety)].obj

\* obj has every attribute of stage, with the same value, under prefix_
Carries(obj, stage, prefix) ==
    \A a \in AttrNames(stage) :
        /\ HasAttr(obj, Prefixed(prefix, a))
        /\ GetAttr(obj, Prefixed(prefix, a)) = GetAttr(stage, a)

\* entry i names as a stage a composite entry listed after it
NamesLaterComposite(amps, i) ==
    LET dual == GetAttr(amps[i].obj, Attr("dual_stage_model")) IN
    \E j \in (i + 1)..Len(amps) :
        /\ amps[j].key \in {dual.preamp_variety, dual.booster_variety}
        /\ IsComposite(amps[j].obj)

PlainEntriesUnchanged ==
    \A i \in 1..Len(equipment) :
        ~IsComposite(equipment[i].obj) => equipment[i] = before[i]

\* C6 as claimed: after a successful resolution every composite entry carries
\* every attribute of the record stored under its preamp name as preamp_<a>
\* and every attribute of the record under its booster name as booster_<a>,
\* and the other entries are unchanged.
C6_EveryCompositeCarriesItsStages ==
    pc = "dual: resolved" =>
        /\ \A i \in 1..Len(equipment) :
              IsComposite(equipment[i].obj) =>
                /\ Carries(equipment[i].obj, PreampOf(equipment, i), "preamp")
                /\ Carries(equipment[i].obj, BoosterOf(equipment, i), "booster")
        /\ PlainEntriesUnchanged

\* C6 as amended: the same, for the composite entries that name no composite
\* entry listed after them in the table.
C6_CompositeCarriesItsStages ==
    pc = "dual: resolved" =>
        /\ \A i \in 1..Len(equipment) :
              (IsComposite(equipment[i].obj) /\ ~NamesLaterComposite(equipment, i)) =>
                /\ Carries(equipment[i].obj, PreampOf(equipment, i), "preamp")
                /\ Carries(equipment[i].obj, BoosterOf(equipment, i), "booster")
        /\ PlainEntriesUnchanged

\* the table {A, B, C: composite(preamp=B, booster=A)} resolved: C carries the
\* noise figures of B and of A
C6_Witness ==
    /\ pc = "dual: resolved"
    /\ Len(equipment) = 3
    /\ IsComposite(equipment[3].obj)
    /\ ~IsComposite(equipment[1].obj) /\ ~IsComposite(equipment[2].obj)
    /\ GetAttr(equipment[3].obj, Attr("dual_stage_model"))
            = Model_dual_stage(Name("B"), Name("A"))
    /\ GetAttr(equipment[3].obj, "preamp_nf_fit_coeff")
            = Tuple(<<Num(1, -2), Num(2, -1), Num(0, 0), Num(6, 0)>>)
    /\ GetAttr(equipment[3].obj, "booster_nf_fit_coeff")
            = Tuple(<<Num(1, -2), Num(2, -1), Num(0, 0), Num(5, 0)>>)

\* the preamp_*/booster_* attributes of a: each is one of b, with the same value
StageAttrsWithin(a, b) ==
    \A j \in 1..Len(a) :
        a[j].k \notin BaseAttrNames =>
            HasAttr(b, a[j].k) /\ GetAttr(b, a[j].k) = a[j].v

SameStageAttrs(a, b) == StageAttrsWithin(a, b) /\ StageAttrsWithin(b, a)

\* C7 as claimed: on every table the resolver succeeds on, a second
\* application succeeds and leaves every entry with the same preamp_*/booster_*
\* attribute names and values.
C7_ResolvingTwiceChangesNothing ==
    /\ pc # "dual: failed twice"
    /\ pc = "dual: resolved twice" =>
            \A i \in 1..Len(equipment) :
                SameStageAttrs(equipment[i].obj, before[i].obj)

FlatOrOrdered(amps) ==
    \A i \in 1..Len(amps) :
        IsComposite(amps[i].obj) => ~NamesLaterComposite(amps, i)

\* C7 as amended: the same, for the tables in which no composite entry names a
\* composite entry listed after it.
C7_ResolvingTwiceChangesNothingWhenOrdered ==
    /\ pc # "dual: failed twice"
    /\ (pc = "dual: resolved twice" /\ FlatOrOrdered(equipment)) =>
            \A i \in 1..Len(equipment) :
                SameStageAttrs(equipment[i].obj, before[i].obj)

C7_Witness ==
    /\ pc = "dual: resolved twice"
    /\ FlatOrOrdered(equipment)
    /\ \E i \in 1..Len(equipment) :
          /\ IsComposite(equipment[i].obj)
          /\ HasAttr(equipment[i].obj, "preamp_nf_fit_coeff")
          /\ HasAttr(before[i].obj, "booster_nf_fit_coeff")

\* C8: when a composite names a type that is absent from the table, the
\* resolver raises and no entry of the table has been given any
\* preamp_*/booster_* attribute.
C8_FailedResolutionMutatesNothing ==
    (pc = "dual: failed" /\ error = "KeyError") =>
        \A i \in 1..Len(equipment) : AttrNames(equipment[i].obj) \subseteq BaseAttrNames

-----------------------------------------------------------------------------
(* The fiber transformers and their store *)

SameFiber(a, b) ==
    /\ a.dispersion = b.dispersion
    /\ a.dispersion_slope = b.dispersion_slope
    /\ a.gamma = b.gamma
    /\ a.pmd_coef = b.pmd_coef
    /\ a.class = "RamanFiber" =>
            /\ b.class = "RamanFiber"
            /\ a.raman_efficiency.cr = b.raman_efficiency.cr
            /\ a.raman_efficiency.frequency_offset = b.raman_efficiency.frequency_offset

SameFiberTable(a, b) ==
    /\ Len(a) = Len(b)
    /\ \A i \in 1..Len(a) : a[i].key = b[i].key /\ SameFiber(a[i].obj, b[i].obj)

\* C10: transforming the entry the store emits for a loaded Fiber or RamanFiber
\* record yields a record with the same dispersion, dispersion slope, gamma and
\* PMD coefficient and, for a Raman fiber, the same Raman-efficiency
\* coefficients and frequency offsets in the same order.
C10_StoredFiberTransformsBack ==
    /\ pc # "fiber: reload failed"
    /\ pc = "fiber: reloaded" =>
            /\ SameFiberTable(equipment.Fiber, reloaded.Fiber)
            /\ SameFiberTable(equipment.RamanFiber, reloaded.RamanFiber)

-----------------------------------------------------------------------------
(* The network loader *)

\* the nodes and the links of the network of the document
DocNodes == json_data[1][NODE]
DocLinks == json_data[1][LINK]
IsPhotonic ==
    Has(json_data[1], NETWORK_TYPES) /\ Has(json_data[1][NETWORK_TYPES], PHOTONIC_TOPOLOGY)

\* the nodes of a graph that carry a uid
NodesOfUid(G, uid) == {n \in 1..Len(G.nodes) : G.nodes[n].uid = uid}

EdgeWeights(G, a, b) ==
    {G.edges[i].weight : i \in {j \in 1..Len(G.edges) :
                                    G.edges[j].src = a /\ G.edges[j].dst = b}}

\* C2: a fiber link L from S to D is loaded as exactly one Fiber node named
\* by L, an edge from S to it whose weight is the length of L itself, and an
\* edge from it to D of weight 0.01, however many links the document has and
\* in whatever order
C2_FiberLinkGivesNodeAndTwoEdges ==
    pc = "net: loaded" =>
        \A i \in 1..Len(DocLinks) :
            LET L == DocLinks[i]
                S == NodesOfUid(network, L["source"]["source-node"])
                D == NodesOfUid(network, L["destination"]["dest-node"])
                F == NodesOfUid(network, L["link-id"])
            IN Has(L, TOPO_FIBER) =>
                /\ Cardinality(F) = 1
                /\ \A f \in F : network.nodes[f].class = "Fiber"
                /\ \A f \in F : \E a \in S :
                        EdgeWeights(network, a, f) = {Float(L[TOPO_FIBER]["length"])}
                /\ \A f \in F : \E b \in D : EdgeWeights(network, f, b) = {PatchWeight}

KindsOf(node) == NodeKinds \cap DOMAIN node

\* C3: a document with a node that has none, or more than one, of the
\* sub-structures amplifier, roadm, transceiver, attenuator is not loaded:
\* loading it raises
C3_NodeOfNoneOrSeveralKindsRaises ==
    (pc \in {"net: loaded", "net: failed"} /\ IsPhotonic
     /\ \E i \in 1..Len(DocNodes) : Cardinality(KindsOf(DocNodes[i])) # 1)
    => error # NoError

UnresolvedNode(node) ==
    \/ Has(node, TOPO_AMPLIFIER) /\ node[TOPO_AMPLIFIER]["model"] \notin DictKeys(equipment.Edfa)
    \/ Has(node, TOPO_ROADM) /\ node[TOPO_ROADM]["model"] \notin DictKeys(equipment.Roadm)
    \/ Has(node, TOPO_TRANSCEIVER)
        /\ node[TOPO_TRANSCEIVER]["model"] \notin DictKeys(equipment.Transceiver)

UnresolvedLink(link) ==
    Has(link, TOPO_FIBER) /\ link[TOPO_FIBER]["type"] \notin DictKeys(equipment.Fiber)

\* C5: a document with an amplifier, roadm or transceiver node, or a fiber
\* link, whose type name the equipment library does not have is not loaded:
\* loading it raises
C5_UnresolvedTypeNameRaises ==
    (/\ pc \in {"net: loaded", "net: failed"}
     /\ IsPhotonic
     /\ \/ \E i \in 1..Len(DocNodes) : UnresolvedNode(DocNodes[i])
        \/ \E i \in 1..Len(DocLinks) : UnresolvedLink(DocLinks[i]))
    => error # NoError

-----------------------------------------------------------------------------
(* The round trip of a graph *)

TableOf(el) ==
    CASE el.class = "Transceiver" -> equipment.Transceiver
      [] el.class = "Edfa" -> equipment.Edfa
      [] el.class = "Roadm" -> equipment.Roadm
      [] el.class = "Fiber" -> equipment.Fiber
      [] OTHER -> <<>>

\* unique uids, every Fiber with one predecessor and one successor, no edge
\* between two Fibers, every type_variety in the equipment library
ValidGraph(G) ==
    /\ \A n, m \in 1..Len(G.nodes) : G.nodes[n].uid = G.nodes[m].uid => n = m
    /\ \A n \in 1..Len(G.nodes) :
        G.nodes[n].class = "Fiber" =>
            Len(predecessors(G, n)) = 1 /\ Len(successors(G, n)) = 1
    /\ \A i \in 1..Len(G.edges) :
        ~(G.nodes[G.edges[i].src].class = "Fiber" /\ G.nodes[G.edges[i].dst].class = "Fiber")
    /\ \A n \in 1..Len(G.nodes) :
        G.nodes[n].class # "Fused" =>
            /\ Has(G.nodes[n], "type_variety")
            /\ G.nodes[n].type_variety \in DictKeys(TableOf(G.nodes[n]))

UidsOf(G) == {G.nodes[n].uid : n \in 1..Len(G.nodes)}
ClassesOf(G) == {<<G.nodes[n].uid, G.nodes[n].class>> : n \in 1..Len(G.nodes)}
EdgesOf(G) ==
    {<<G.nodes[G.edges[i].src].uid, G.nodes[G.edges[i].dst].uid>> : i \in 1..Len(G.edges)}

SameNodesAndEdges(G, H) ==
    /\ Len(G.nodes) = Len(H.nodes)
    /\ UidsOf(G) = UidsOf(H)
    /\ ClassesOf(G) = ClassesOf(H)
    /\ EdgesOf(G) = EdgesOf(H)

\* C1: a valid graph that is stored and loaded again comes back with the
\* same node identifiers, each of the same kind of element, and the same
\* directed edges
C1_StoredGraphLoadsBack ==
    (/\ pc \in {"graph: store failed", "graph: reloaded", "graph: reload failed"}
     /\ ValidGraph(before))
    => (pc = "graph: reloaded" /\ SameNodesAndEdges(before, reloaded))

-----------------------------------------------------------------------------
(* The graph a load returns *)

\* C11: in a graph that a load returned, no two nodes carry the same
\* identifier, whether they come from topology nodes or from fiber links, of
\* the same network or of different networks
C11_LoadedIdentifiersAreUnique ==
    pc = "net: loaded" =>
        \A n, m \in 1..Len(network.nodes) :
            network.nodes[n].uid = network.nodes[m].uid => n = m

IsFiberNode(G, n) == G.nodes[n].class = "Fiber"

\* C12: in a graph that a load returned, every Fiber node has exactly one
\* predecessor and exactly one successor, and no edge joins two Fiber nodes
C12_LoadedFibersAreLinear ==
    pc = "net: loaded" =>
        /\ \A n \in 1..Len(network.nodes) :
            IsFiberNode(network, n) =>
                /\ Len(predecessors(network, n)) = 1
                /\ Len(successors(network, n)) = 1
        /\ \A i \in 1..Len(network.edges) :
            ~(IsFiberNode(network, network.edges[i].src)
              /\ IsFiberNode(network, network.edges[i].dst))

-----------------------------------------------------------------------------
(* The modes of a transceiver type *)

\* C13: the stored entry of a transceiver type lists the modes of the type in
\* their order, and the record transformed from that entry has as many modes
\* as the type, with the same format names at the same positions
C13_ModeOrderIsPreserved ==
    /\ pc \in {"transceiver: stored", "transceiver: reloaded"} =>
        /\ Len(raw["mode"]) = Len(equipment.mode)
        /\ \A i \in 1..Len(equipment.mode) :
            raw["mode"][i]["name"] = equipment.mode[i].format
    /\ pc = "transceiver: reloaded" =>
        /\ Len(reloaded.mode) = Len(equipment.mode)
        /\ \A i \in 1..Len(equipment.mode) :
            reloaded.mode[i].format = equipment.mode[i].format

C13_Witness ==
    /\ pc = "transceiver: reloaded"
    /\ Len(equipment.mode) >= 2
    /\ equipment.mode[1].format # equipment.mode[2].format
    /\ reloaded.mode[1].format = equipment.mode[1].format

-----------------------------------------------------------------------------
(* The order of the steps of a load and of a store *)

StepsTaken == {before[i] : i \in 1..Len(before)}
Extraction == {"_load_equipment", "_load_network"}
EquipmentSections ==
    {"tip-photonic-equipment:amplifier", "tip-photonic-equipment:fiber",
     "tip-photonic-equipment:transceiver", "tip-photonic-equipment:roadm"}

\* C14: a load validates the document and fills the defaults before the
\* first extraction step and never after it; when the document has no
\* simulation section the load fails with a configuration error and no
\* equipment record or graph node exists; the network is loaded only from a
\* complete library whose dual-stage amplifiers are resolved.  A store
\* validates only the complete raw structure and returns it only if the
\* validation succeeded.
C14_ValidationBracketsTheWork ==
    /\ json_data # None =>
        /\ \A i \in 1..Len(before) :
            before[i] \in Extraction =>
                /\ \E j, k \in 1..Len(before) :
                    j < k /\ k < i /\ before[j] = "validate" /\ before[k] = "add_defaults"
                /\ \A j \in (i + 1)..Len(before) :
                    before[j] \notin {"validate", "add_defaults"}
        /\ (equipment # None \/ network # None) => "add_defaults" \in StepsTaken
        /\ (raw # None /\ ~Has(raw, SIMULATION)) =>
            /\ equipment = None
            /\ network = None
            /\ "simulation looked for" \in StepsTaken =>
                (pc = "load: failed" /\ error = "ConfigurationError")
        /\ "_load_network" \in StepsTaken =>
            /\ equipment # None
            /\ library_complete(equipment)
            /\ equipment.Edfa =
                _fixup_dual_stage(
                    amp_table(raw["tip-photonic-equipment:amplifier"], 1).val).val
        /\ reloaded # None => (equipment # None /\ network # None /\ error = NoError)
    /\ json_data = None =>
        /\ "validate" \in StepsTaken =>
            /\ before[Len(before)] \in {"validate", "return"}
            /\ EquipmentSections \cup {SIMULATION} \subseteq DOMAIN raw
            /\ network # None => Has(raw, NETWORKS)
        /\ reloaded # None =>
            /\ "validate" \in StepsTaken
            /\ error = NoError
            /\ reloaded = raw
        /\ error = "SchemaError" => reloaded = None

C14_Witness ==
    /\ pc = "load: returned"
    /\ Len(network.nodes) >= 1
    /\ \E i \in 1..Len(equipment.Edfa) :
        GetAttr(equipment.Edfa[i].obj, Attr("dual_stage_model")) # None

-----------------------------------------------------------------------------
(* The links of a stored graph *)

FiberNodes(G) == {n \in 1..Len(G.nodes) : IsFiberNode(G, n)}
IsLinear(G, n) == Len(predecessors(G, n)) = 1 /\ Len(successors(G, n)) = 1
StoredLinks == raw[1][LINK]
LinksOf(uid) == {i \in 1..Len(StoredLinks) : StoredLinks[i]["link-id"] = uid}

\* C15: a store of a graph in which some Fiber has not exactly one
\* predecessor and exactly one successor fails; a store that succeeds emits,
\* for every Fiber with one of each, one link whose identifier is the
\* Fiber's, whose source is the predecessor and whose destination is the
\* successor
C15_FiberAdjacencyIsChecked ==
    pc \in {"graph: stored", "graph: store failed"} =>
        /\ (\E n \in FiberNodes(before) : ~IsLinear(before, n)) =>
            pc = "graph: store failed"
        /\ pc = "graph: stored" =>
            \A n \in FiberNodes(before) :
                IsLinear(before, n) =>
                    /\ Cardinality(LinksOf(before.nodes[n].uid)) = 1
                    /\ \A i \in LinksOf(before.nodes[n].uid) :
                        /\ StoredLinks[i]["source"]["source-node"] =
                            before.nodes[predecessors(before, n)[1].src].uid
                        /\ StoredLinks[i]["destination"]["dest-node"] =
                            before.nodes[successors(before, n)[1].dst].uid

FiberEdges(G) ==
    {i \in 1..Len(G.edges) : IsFiberNode(G, G.edges[i].src) /\ IsFiberNode(G, G.edges[i].dst)}
PlainEdges(G) ==
    {i \in 1..Len(G.edges) : ~IsFiberNode(G, G.edges[i].src) /\ ~IsFiberNode(G, G.edges[i].dst)}
FiberLinks == {i \in 1..Len(StoredLinks) : Has(StoredLinks[i], TOPO_FIBER)}
PatchLinks == {i \in 1..Len(StoredLinks) : Has(StoredLinks[i], TOPO_PATCH)}

\* the stored links are one fiber link for every Fiber node and one patch
\* link for every edge without a Fiber end, and nothing else
LinksMatch(G) ==
    /\ FiberLinks \cup PatchLinks = 1..Len(StoredLinks)
    /\ Cardinality(FiberLinks) = Cardinality(FiberNodes(G))
    /\ \A n \in FiberNodes(G) :
        \E i \in FiberLinks : StoredLinks[i]["link-id"] = G.nodes[n].uid
    /\ Cardinality(PatchLinks) = Cardinality(PlainEdges(G))
    /\ \A e \in PlainEdges(G) :
        \E i \in PatchLinks :
            /\ StoredLinks[i]["source"]["source-node"] = G.nodes[G.edges[e].src].uid
            /\ StoredLinks[i]["destination"]["dest-node"] = G.nodes[G.edges[e].dst].uid

\* C16: a store of a graph with an edge between two Fiber nodes fails with a
\* network-topology error and leaves no document; any other store that
\* succeeds emits one fiber link for every Fiber node, one patch link for
\* every edge without a Fiber end, and no other link
C16_FiberToFiberIsRejected ==
    pc \in {"graph: stored", "graph: store failed"} =>
        /\ FiberEdges(before) # {} =>
            /\ pc = "graph: store failed"
            /\ error = "NetworkTopologyError"
            /\ raw = None
        /\ pc = "graph: stored" => LinksMatch(before)

\* a store of a graph with an edge between two Fiber nodes fails, and a
\* store that succeeds emits the links of C16
FiberToFiberFailsAndLinksMatch ==
    pc \in {"graph: stored", "graph: store failed"} =>
        /\ FiberEdges(before) # {} => (pc = "graph: store failed" /\ raw = None)
        /\ pc = "graph: stored" => LinksMatch(before)

-----------------------------------------------------------------------------
(* The spectrum interpolator *)

Points == json_data[GAIN_RIPPLE]
Reordered(p) == GAIN_RIPPLE :> [i \in 1..Len(Points) |-> Points[p[i]]]
LowestPoint ==
    CHOOSE i \in 1..Len(Points) :
        \A j \in 1..Len(Points) : Points[i]["frequency"] <= Points[j]["frequency"]
HighestPoint ==
    CHOOSE i \in 1..Len(Points) :
        \A j \in 1..Len(Points) : Points[i]["frequency"] >= Points[j]["frequency"]

\* C17: without the key the interpolator returns the one value 0; with it,
\* one value for each of the 96 grid frequencies 191.3 THz + k * 50 GHz, the
\* same for every order of the entries, the value of the lowest entry at and
\* below its frequency and the value of the highest entry at and above its
\* frequency, hence the value of the entry everywhere when there is one entry
C17_InterpolatedOnTheGrid ==
    pc = "spectrum: extracted" =>
        IF ~Has(json_data, GAIN_RIPPLE) THEN raw = Tuple(<<Num(0, 0)>>)
        ELSE /\ Len(raw.elems) = 96
             /\ \A p \in Permutations(1..Len(Points)) :
                    _extract_per_spectrum(GAIN_RIPPLE, Reordered(p)) = raw
             /\ \A k \in 0..95 :
                    /\ 191300 + k * 50 <= Points[LowestPoint]["frequency"] =>
                        raw.elems[k + 1] = Float(Points[LowestPoint][GAIN_RIPPLE])
                    /\ 191300 + k * 50 >= Points[HighestPoint]["frequency"] =>
                        raw.elems[k + 1] = Float(Points[HighestPoint][GAIN_RIPPLE])
             /\ Len(Points) = 1 =>
                    \A k \in 1..96 : raw.elems[k] = Float(Points[1][GAIN_RIPPLE])

C17_Witness ==
    /\ pc = "spectrum: extracted"
    /\ Has(json_data, GAIN_RIPPLE)
    /\ Len(Points) = 2
    /\ Points[1]["frequency"] > Points[2]["frequency"]
    /\ Points[1]["frequency"] = 193025
    /\ Points[2]["frequency"] = 191300
    /\ raw.elems[1] = Float(Points[2][GAIN_RIPPLE])
    /\ raw.elems[2] # raw.elems[1]
    /\ raw.elems[96] = Float(Points[1][GAIN_RIPPLE])

-----------------------------------------------------------------------------
(* The Raman efficiency of a fiber type *)

\* C18: every Raman fiber record of a loaded library has as many
\* coefficients as frequency offsets, and its frequency offsets ascend
C18_RamanOffsetsAscend ==
    pc = "fiber: loaded" =>
        \A r \in 1..Len(equipment.RamanFiber) :
            LET eff == equipment.RamanFiber[r].obj.raman_efficiency IN
            /\ Len(eff.cr) = Len(eff.frequency_offset)
            /\ \A i, j \in 1..Len(eff.frequency_offset) :
                i < j => Milli(eff.frequency_offset[i]) < Milli(eff.frequency_offset[j])

-----------------------------------------------------------------------------
(* The per-degree powers of a loaded graph *)

PhotonicNetworks ==
    {k \in 1..Len(json_data) :
        Has(json_data[k], NETWORK_TYPES)
        /\ Has(json_data[k][NETWORK_TYPES], PHOTONIC_TOPOLOGY)}

\* the links of the document, each named by its network and its position
AllLinks ==
    UNION {{<<k, i>> : i \in 1..Len(json_data[k][LINK])} : k \in PhotonicNetworks}
LinkAt(l) == json_data[l[1]][LINK][l[2]]
SourceOf(l) == LinkAt(l)["source"]["source-node"]
TargetOf(l) == LinkAt(l)["destination"]["dest-node"]
PatchesOf == {l \in AllLinks : Has(LinkAt(l), TOPO_PATCH)}
PoweredPatches == {l \in PatchesOf : Has(LinkAt(l)[TOPO_PATCH], PER_DEGREE_POWER)}
PowerOf(l) == Float(LinkAt(l)[TOPO_PATCH][PER_DEGREE_POWER])
Later(l, m) == l[1] > m[1] \/ (l[1] = m[1] /\ l[2] >= m[2])

\* the last link of the document that gives a power from the source of l to
\* the target of l
LastPowered(l) ==
    CHOOSE m \in PoweredPatches :
        /\ SourceOf(m) = SourceOf(l)
        /\ TargetOf(m) = TargetOf(l)
        /\ \A o \in PoweredPatches :
            (SourceOf(o) = SourceOf(l) /\ TargetOf(o) = TargetOf(l)) => Later(m, o)

PowerMap(n) == network.nodes[n].params.per_degree_pch_out_db
RoadmNodes == {n \in 1..Len(network.nodes) : network.nodes[n].class = "Roadm"}
EdgesBetween(a, b) ==
    {i \in 1..Len(network.edges) : network.edges[i].src = a /\ network.edges[i].dst = b}

\* what every link leaves in the graph but the value of a power: the source
\* of a patch link with a power is a Roadm, the maps have no key but the
\* targets of such links, a patch link leaves one edge and no node
PatchLinksLeave ==
    /\ \A l \in PoweredPatches :
        \E n \in NodesOfUid(network, SourceOf(l)) \cap RoadmNodes :
            Has(PowerMap(n), TargetOf(l))
    /\ \A n \in RoadmNodes :
        \A target \in DOMAIN PowerMap(n) :
            \E l \in PoweredPatches :
                SourceOf(l) = network.nodes[n].uid /\ TargetOf(l) = target
    /\ \A l \in PatchesOf :
        \E a \in NodesOfUid(network, SourceOf(l)), b \in NodesOfUid(network, TargetOf(l)) :
            Cardinality(EdgesBetween(a, b)) = 1
    /\ Cardinality({n \in 1..Len(network.nodes) : network.nodes[n].class # "Fiber"})
        = Cardinality(UNION {{<<k, i>> : i \in 1..Len(json_data[k][NODE])} :
                                k \in PhotonicNetworks})

\* C19, as stated: after a load, the source of every patch link with a power
\* is a Roadm whose map holds that power under the target of the link; no
\* other link adds an entry; a patch link adds one edge and no node
C19_EveryPowerIsHeld ==
    pc = "net: loaded" =>
        /\ PatchLinksLeave
        /\ \A l \in PoweredPatches :
            \E n \in NodesOfUid(network, SourceOf(l)) \cap RoadmNodes :
                PowerMap(n)[TargetOf(l)] = PowerOf(l)

\* C19, amended: the map holds, under the target of a patch link with a
\* power, the power of the last link of the document from that source to
\* that target
C19_LastPowerIsHeld ==
    pc = "net: loaded" =>
        /\ PatchLinksLeave
        /\ \A l \in PoweredPatches :
            \E n \in NodesOfUid(network, SourceOf(l)) \cap RoadmNodes :
                PowerMap(n)[TargetOf(l)] = PowerOf(LastPowered(l))

C19_Witness ==
    /\ pc = "net: loaded"
    /\ \E l, m \in PoweredPatches :
        /\ l # m
        /\ Later(m, l)
        /\ SourceOf(l) = SourceOf(m)
        /\ TargetOf(l) = TargetOf(m)
        /\ PowerOf(l) # PowerOf(m)
        /\ \E n \in NodesOfUid(network, SourceOf(l)) \cap RoadmNodes :
            PowerMap(n)[TargetOf(l)] = PowerOf(m)

-----------------------------------------------------------------------------
(* The nodes without a type *)

Lacking(G, class) ==
    {n \in 1..Len(G.nodes) : G.nodes[n].class = class /\ ~Has(G.nodes[n], "type_variety")}
StoredNodes == raw[1][NODE]

\* the store has no reason to fail but a Transceiver without a type
NothingElseFails(G) ==
    /\ Lacking(G, "Roadm") = {}
    /\ FiberEdges(G) = {}
    /\ \A n \in FiberNodes(G) :
        Len(predecessors(G, n)) >= 1 /\ Len(successors(G, n)) >= 1

\* C20: a store does not fail for a Transceiver without a type, which it
\* emits with the first key of the Transceiver table as its model; it fails
\* with a network-topology error for a Roadm without a type; it changes
\* nothing in the graph but the type of such Transceivers, and nothing in
\* the library
C20_MissingTransceiverTypeIsFilled ==
    pc \in {"graph: stored", "graph: store failed"} =>
        /\ NothingElseFails(before) => pc = "graph: stored"
        /\ pc = "graph: stored" =>
            \A n \in Lacking(before, "Transceiver") :
                \E i \in 1..Len(StoredNodes) :
                    /\ StoredNodes[i]["node-id"] = before.nodes[n].uid
                    /\ StoredNodes[i][TOPO_TRANSCEIVER]["model"] = equipment.Transceiver[1].key
        /\ Lacking(before, "Roadm") # {} =>
            (pc = "graph: store failed" /\ error = "NetworkTopologyError")
        /\ network.edges = before.edges
        /\ Len(network.nodes) = Len(before.nodes)
        /\ \A n \in 1..Len(before.nodes) :
            \/ network.nodes[n] = before.nodes[n]
            \/ /\ n \in Lacking(before, "Transceiver")
               /\ network.nodes[n] =
                    with_type_variety(before.nodes[n], equipment.Transceiver[1].key)
        /\ equipment \in GraphLibraries

\* the same for the stores with a library that has a Transceiver type
TransceiverTypeIsFilledFromTable ==
    Len(equipment.Transceiver) >= 1 => C20_MissingTransceiverTypeIsFilled

-----------------------------------------------------------------------------
(* The power mode and the power sweep of a library *)

DefaultOf(table) == table[DictIndex(table, DEFAULT)].obj
StoredAutodesign == raw[SIMULATION]["autodesign"]

\* power_range_db is None exactly without the power mode, else three numbers
SweepMatchesMode(equip) ==
    /\ DefaultOf(equip.SI).power_range_db = None <=> ~DefaultOf(equip.Span).power_mode
    /\ DefaultOf(equip.Span).power_mode =>
        /\ DOMAIN DefaultOf(equip.SI).power_range_db = 1..3
        /\ \A i \in 1..3 : IsNum(DefaultOf(equip.SI).power_range_db[i])

=============================================================================
